---- MODULE Spec2Model ----
(***************************************************************************)
(* Text-to-bits conversion of fixed-point literals (src/src/from_str.rs).  *)
(*                                                                         *)
(* A text is a sequence of bytes (their ASCII codes).  A word of width w   *)
(* is a natural number below 2^w; Rust's shifts, casts and checked         *)
(* additions are modelled with their width.  An Option is a record         *)
(* [some, val]; a Result is a record [ok, kind, bits].                     *)
(***************************************************************************)
EXTENDS Integers, Sequences, FiniteSets, TLC

\* ------------------------------------------------------------------ bounds

\* Longest text fed to the lexical scan.
MaxLen == 4
\* Longest digit string handed directly to a radix 2/8/16 fraction converter,
\* counted in bits (a digit of radix 2/8/16 is 1/3/4 bits).
MaxFracBits == 12
\* Longest decimal fraction span handed directly to get_frac8_dec.
MaxDecDigits == 5
\* Longest digit span handed directly to get_int16 and get_frac16.
MaxSpan == 4
\* The wide decimal converters are called on the values at distance
\* 0..MaxOffset from each of their sample points.
MaxOffset == 1
\* dec6_to_bin16 is sampled: every Stride6-th value, plus the neighbourhood of
\* every multiple of 5^6 (where all exact ties and the carry boundary lie).
Stride6 == 499

\* ------------------------------------------------------------ byte values

PLUS == 43
MINUS == 45
POINT == 46
SPACE == 32
ZERO == 48

\* ----------------------------------------------------------- word helpers

\* x << k on a w-bit word (k < w): the bits shifted past bit w-1 are lost.
Shl(x, k, w) == (x % (2 ^ (w - k))) * (2 ^ k)

\* x >> k on an unsigned word.
Shr(x, k) == x \div (2 ^ k)

\* leading_zeros() of an unsigned w-bit word.
RECURSIVE BitLen(_)
BitLen(x) == IF x = 0 THEN 0 ELSE 1 + BitLen(x \div 2)

LeadingZeros(x, w) == w - BitLen(x)

None == [some |-> FALSE, val |-> 0]

Some(v) == [some |-> TRUE, val |-> v]

\* checked_add on a w-bit word.
CheckedAdd(a, b, w) == IF a + b >= 2 ^ w THEN None ELSE Some(a + b)

\* int | frac of two words.
RECURSIVE BitOr(_, _)
BitOr(a, b) ==
  IF a = 0 THEN b
  ELSE IF b = 0 THEN a
  ELSE (IF a % 2 = 1 \/ b % 2 = 1 THEN 1 ELSE 0) + 2 * BitOr(a \div 2, b \div 2)

\* ------------------------------------------------------- lexical validator

NoIndex == 0 - 1

ScanInit ==
  [sign |-> "none", trimmed_int_start |-> NoIndex, point |-> NoIndex,
   trimmed_frac_end |-> NoIndex, has_any_digit |-> FALSE]

\* A bug: the arm (b'a'..=b'f', 16) is missing.
IsDigitNoLowerHex(byte, radix) ==
  \/ radix = 2 /\ byte >= 48 /\ byte <= 49
  \/ radix = 8 /\ byte >= 48 /\ byte <= 55
  \/ radix = 10 /\ byte >= 48 /\ byte <= 57
  \/ radix = 16 /\ byte >= 48 /\ byte <= 57
  \/ radix = 16 /\ byte >= 65 /\ byte <= 70

\* A bug: any radix is served, a digit being legal when its value is below it.
IsDigitAnyRadix(byte, radix) ==
  \/ byte >= 48 /\ byte <= 57 /\ byte - 48 < radix
  \/ byte >= 97 /\ byte <= 102 /\ byte - 87 < radix
  \/ byte >= 65 /\ byte <= 70 /\ byte - 55 < radix

\* The digit arm of the match in parse_bounds.
IsDigit(byte, radix) ==
  \/ radix = 2 /\ byte >= 48 /\ byte <= 49
  \/ radix = 8 /\ byte >= 48 /\ byte <= 55
  \/ radix = 10 /\ byte >= 48 /\ byte <= 57
  \/ radix = 16 /\ byte >= 48 /\ byte <= 57
  \/ radix = 16 /\ byte >= 97 /\ byte <= 102
  \/ radix = 16 /\ byte >= 65 /\ byte <= 70

\* A bug: a '+' after a digit is let through.
PlusIllegalNoDigitCheck(sc) == sc.sign # "none" \/ sc.point # NoIndex

\* The condition under which the '+' arm returns InvalidDigit.
PlusIllegal(sc) == sc.sign # "none" \/ sc.point # NoIndex \/ sc.has_any_digit

\* A bug: can_be_neg is not consulted.
MinusIllegalAnyLayout(sc, can_be_neg) ==
  sc.sign # "none" \/ sc.point # NoIndex \/ sc.has_any_digit

\* The condition under which the '-' arm returns InvalidDigit.
MinusIllegal(sc, can_be_neg) ==
  ~can_be_neg \/ sc.sign # "none" \/ sc.point # NoIndex \/ sc.has_any_digit

\* A bug: a second point replaces the first.
PointNeverIllegal(sc) == FALSE

\* The condition under which the '.' arm returns TooManyPoints.
PointIllegal(sc) == sc.point # NoIndex

\* A bug: the '+' arm records Some(true) as the '-' arm does.
SignOfAlwaysMinus(byte) == "minus"

\* The sign a sign byte records: Some(false) for '+', Some(true) for '-'.
SignOf(byte) == IF byte = PLUS THEN "plus" ELSE "minus"

\* A bug: the integer span starts at the first digit, a '0' included.
ScanStepKeepsLeadingZeros(sc, index, byte, can_be_neg, radix) ==
  IF byte = PLUS THEN
    IF PlusIllegal(sc)
    THEN [err |-> "InvalidDigit", sc |-> sc]
    ELSE [err |-> "ok", sc |-> [sc EXCEPT !.sign = SignOf(byte)]]
  ELSE IF byte = MINUS THEN
    IF MinusIllegal(sc, can_be_neg)
    THEN [err |-> "InvalidDigit", sc |-> sc]
    ELSE [err |-> "ok", sc |-> [sc EXCEPT !.sign = SignOf(byte)]]
  ELSE IF byte = POINT THEN
    IF PointIllegal(sc)
    THEN [err |-> "TooManyPoints", sc |-> sc]
    ELSE [err |-> "ok",
          sc |-> [sc EXCEPT !.point = index, !.trimmed_frac_end = index + 1]]
  ELSE IF IsDigit(byte, radix) THEN
    [err |-> "ok",
     sc |-> [sc EXCEPT
       !.trimmed_int_start =
          IF sc.trimmed_int_start = NoIndex /\ sc.point = NoIndex
          THEN index ELSE @,
       !.trimmed_frac_end =
          IF sc.trimmed_frac_end # NoIndex /\ byte # ZERO THEN index + 1 ELSE @,
       !.has_any_digit = TRUE]]
  ELSE [err |-> "InvalidDigit", sc |-> sc]

\* A bug: the catch-all arm does not return, the byte is skipped.
ScanStepSkipsIllegalByte(sc, index, byte, can_be_neg, radix) ==
  IF byte = PLUS THEN
    IF PlusIllegal(sc)
    THEN [err |-> "InvalidDigit", sc |-> sc]
    ELSE [err |-> "ok", sc |-> [sc EXCEPT !.sign = SignOf(byte)]]
  ELSE IF byte = MINUS THEN
    IF MinusIllegal(sc, can_be_neg)
    THEN [err |-> "InvalidDigit", sc |-> sc]
    ELSE [err |-> "ok", sc |-> [sc EXCEPT !.sign = SignOf(byte)]]
  ELSE IF byte = POINT THEN
    IF PointIllegal(sc)
    THEN [err |-> "TooManyPoints", sc |-> sc]
    ELSE [err |-> "ok",
          sc |-> [sc EXCEPT !.point = index, !.trimmed_frac_end = index + 1]]
  ELSE IF IsDigit(byte, radix) THEN
    [err |-> "ok",
     sc |-> [sc EXCEPT
       !.trimmed_int_start =
          IF sc.trimmed_int_start = NoIndex /\ sc.point = NoIndex /\ byte # ZERO
          THEN index ELSE @,
       !.trimmed_frac_end =
          IF sc.trimmed_frac_end # NoIndex /\ byte # ZERO THEN index + 1 ELSE @,
       !.has_any_digit = TRUE]]
  ELSE [err |-> "ok", sc |-> sc]

\* One iteration of the loop of parse_bounds over (index, byte): the error it
\* returns, or "ok" and the updated locals.
ScanStep(sc, index, byte, can_be_neg, radix) ==
  IF byte = PLUS THEN
    IF PlusIllegal(sc)
    THEN [err |-> "InvalidDigit", sc |-> sc]
    ELSE [err |-> "ok", sc |-> [sc EXCEPT !.sign = SignOf(byte)]]
  ELSE IF byte = MINUS THEN
    IF MinusIllegal(sc, can_be_neg)
    THEN [err |-> "InvalidDigit", sc |-> sc]
    ELSE [err |-> "ok", sc |-> [sc EXCEPT !.sign = SignOf(byte)]]
  ELSE IF byte = POINT THEN
    IF PointIllegal(sc)
    THEN [err |-> "TooManyPoints", sc |-> sc]
    ELSE [err |-> "ok",
          sc |-> [sc EXCEPT !.point = index, !.trimmed_frac_end = index + 1]]
  ELSE IF IsDigit(byte, radix) THEN
    [err |-> "ok",
     sc |-> [sc EXCEPT
       !.trimmed_int_start =
          IF sc.trimmed_int_start = NoIndex /\ sc.point = NoIndex /\ byte # ZERO
          THEN index ELSE @,
       !.trimmed_frac_end =
          IF sc.trimmed_frac_end # NoIndex /\ byte # ZERO THEN index + 1 ELSE @,
       !.has_any_digit = TRUE]]
  ELSE [err |-> "InvalidDigit", sc |-> sc]

ParseErr(kind) == [ok |-> FALSE, kind |-> kind, neg |-> FALSE, int |-> <<>>, frac |-> <<>>]

\* A bug: has_any_digit is not checked after the loop.
ScanFinishUnchecked(sc, s) ==
  [ok |-> TRUE, kind |-> "none",
   neg |-> (sc.sign = "minus"),
   int |-> IF sc.trimmed_int_start = NoIndex THEN <<>>
           ELSE IF sc.point # NoIndex
                THEN SubSeq(s, sc.trimmed_int_start + 1, sc.point)
                ELSE SubSeq(s, sc.trimmed_int_start + 1, Len(s)),
   frac |-> IF sc.point # NoIndex /\ sc.trimmed_frac_end # NoIndex
            THEN SubSeq(s, sc.point + 2, sc.trimmed_frac_end)
            ELSE <<>>]

\* A bug: the fraction span runs to the end of the text, trailing zeros included.
ScanFinishFracUntrimmed(sc, s) ==
  IF ~sc.has_any_digit THEN ParseErr("NoDigits")
  ELSE [ok |-> TRUE, kind |-> "none",
        neg |-> (sc.sign = "minus"),
        int |-> IF sc.trimmed_int_start = NoIndex THEN <<>>
                ELSE IF sc.point # NoIndex
                     THEN SubSeq(s, sc.trimmed_int_start + 1, sc.point)
                     ELSE SubSeq(s, sc.trimmed_int_start + 1, Len(s)),
        frac |-> IF sc.point # NoIndex /\ sc.trimmed_frac_end # NoIndex
                 THEN SubSeq(s, sc.point + 2, Len(s))
                 ELSE <<>>]

\* What parse_bounds does after the loop: NoDigits, or the trimmed spans.
\* Indices are 0-based as in the source; s[a..b] is SubSeq(s, a + 1, b).
ScanFinish(sc, s) ==
  IF ~sc.has_any_digit THEN ParseErr("NoDigits")
  ELSE [ok |-> TRUE, kind |-> "none",
        neg |-> (sc.sign = "minus"),
        int |-> IF sc.trimmed_int_start = NoIndex THEN <<>>
                ELSE IF sc.point # NoIndex
                     THEN SubSeq(s, sc.trimmed_int_start + 1, sc.point)
                     ELSE SubSeq(s, sc.trimmed_int_start + 1, Len(s)),
        frac |-> IF sc.point # NoIndex /\ sc.trimmed_frac_end # NoIndex
                 THEN SubSeq(s, sc.point + 2, sc.trimmed_frac_end)
                 ELSE <<>>]

RECURSIVE ScanFrom(_, _, _, _, _)
ScanFrom(sc, index, s, can_be_neg, radix) ==
  IF index >= Len(s) THEN ScanFinish(sc, s)
  ELSE LET r == ScanStep(sc, index, s[index + 1], can_be_neg, radix)
       IN IF r.err # "ok" THEN ParseErr(r.err)
          ELSE ScanFrom(r.sc, index + 1, s, can_be_neg, radix)

parse_bounds(s, can_be_neg, radix) == ScanFrom(ScanInit, 0, s, can_be_neg, radix)

\* ------------------------------------------- radix 2/8/16 digit converters

\* byte - b'0' for a digit of radix 2 or 8.
DigitVal(byte) == byte - ZERO

unchecked_hex_digit(byte) == (byte % 16) + (IF byte >= 64 THEN 9 ELSE 0)

\* The digit value as bin_/oct_/hex_str_*_to_bin read it (bits per digit 1/3/4).
ValOf(byte, k) == IF k = 4 THEN unchecked_hex_digit(byte) ELSE DigitVal(byte)

\* The loop of {bin,oct,hex}_str_int_to_bin from the i-th byte on: the budget
\* leading_zeros is charged k bits before each shift, None once it is used up.
\* lost records whether a shift dropped a set bit of acc.
RECURSIVE IntFold(_, _, _, _, _, _, _)
IntFold(s, i, acc, leading_zeros, k, w, lost) ==
  IF i > Len(s) THEN [some |-> TRUE, val |-> acc, lost |-> lost]
  ELSE IF leading_zeros < k THEN [some |-> FALSE, val |-> 0, lost |-> lost]
  ELSE IntFold(s, i + 1, Shl(acc, k, w) + ValOf(s[i], k), leading_zeros - k, k, w,
               lost \/ acc >= 2 ^ (w - k))

StrIntRun(s, k, w) ==
  LET first_val == ValOf(s[1], k)
  IN IntFold(s, 2, first_val, LeadingZeros(first_val, w), k, w, FALSE)

StrInt(s, k, w) == LET r == StrIntRun(s, k, w) IN [some |-> r.some, val |-> r.val]

bin_str_int_to_bin(s, w) == StrInt(s, 1, w)

oct_str_int_to_bin(s, w) == StrInt(s, 3, w)

hex_str_int_to_bin(s, w) == StrInt(s, 4, w)

\* A bug: the last kept bit is taken as the rounding bit.
RoundBitOffByOne(val, k, rem_bits) == Shr(val, k - rem_bits) % 2

\* The bit of val that lies just past the cutoff when rem_bits of its k bits are kept.
RoundBit(val, k, rem_bits) == Shr(val, k - 1 - rem_bits) % 2

\* The loop of {bin,oct,hex}_str_frac_to_bin from the i-th byte on.
RECURSIVE FracFold(_, _, _, _, _, _, _)
FracFold(s, i, acc, rem_bits, k, nbits, w) ==
  IF i > Len(s) THEN Some(Shl(acc, rem_bits, w))
  ELSE LET val == ValOf(s[i], k)
       IN IF rem_bits < k THEN
            LET kept == IF k = 1 THEN acc
                        ELSE Shl(acc, rem_bits, w) + Shr(val, k - rem_bits)
                rounded == CheckedAdd(kept, RoundBit(val, k, rem_bits), w)
            IN IF ~rounded.some THEN None
               ELSE IF w - nbits # 0 /\ Shr(rounded.val, nbits) # 0 THEN None
               ELSE rounded
          ELSE FracFold(s, i + 1, Shl(acc, k, w) + val, rem_bits - k, k, nbits, w)

bin_str_frac_to_bin(s, nbits, w) == FracFold(s, 1, 0, nbits, 1, nbits, w)

oct_str_frac_to_bin(s, nbits, w) == FracFold(s, 1, 0, nbits, 3, nbits, w)

hex_str_frac_to_bin(s, nbits, w) == FracFold(s, 1, 0, nbits, 4, nbits, w)

\* ------------------------------------------------ decimal scaled rounding

\* A bug: the rounding bias divisor / 2 is not added.
dec3_to_bin8_no_bias(val, nbits) ==
  LET dump_bits == 8 - nbits
      divisor == (5 ^ 3) * 2
      round == Shr(Shl(val, 8 - 3 + 1, 16), dump_bits)
  IN IF Shr(round, nbits) >= divisor THEN None
     ELSE Some((round \div divisor) % (2 ^ 8))

\* val: u16, result: u8.
dec3_to_bin8(val, nbits) ==
  LET dump_bits == 8 - nbits
      divisor == (5 ^ 3) * 2
      shift == Shr(Shl(val, 8 - 3 + 1, 16), dump_bits)
      round == shift + (divisor \div 2)
  IN IF Shr(round, nbits) >= divisor THEN None
     ELSE Some((round \div divisor) % (2 ^ 8))

\* val: u32, result: u16.
dec6_to_bin16(val, nbits) ==
  LET dump_bits == 16 - nbits
      divisor == (5 ^ 6) * 2
      shift == Shr(Shl(val, 16 - 6 + 1, 32), dump_bits)
      round == shift + (divisor \div 2)
  IN IF Shr(round, nbits) >= divisor THEN None
     ELSE Some((round \div divisor) % (2 ^ 16))

\* str::parse::<uN>() of a non-empty string of decimal digits: the value, or an
\* error (None) as soon as it leaves the w-bit range.
RECURSIVE ParseDecFrom(_, _, _, _)
ParseDecFrom(s, i, acc, w) ==
  IF i > Len(s) THEN Some(acc)
  ELSE LET next == acc * 10 + DigitVal(s[i])
       IN IF next >= 2 ^ w THEN None ELSE ParseDecFrom(s, i + 1, next, w)

ParseDec(s, w) == IF s = <<>> THEN None ELSE ParseDecFrom(s, 1, 0, w)

Min(a, b) == IF a <= b THEN a ELSE b

\* $frac_dec of impl_from_str_unsigned_not128 for u8: 3 digits, through u16.
get_frac8_dec(frac, nbits) ==
  LET end == Min(Len(frac), 3)
      rem == 3 - end
      i == ParseDec(SubSeq(frac, 1, end), 16).val * (10 ^ rem)
  IN dec3_to_bin8(i, nbits)

\* $frac_dec for u16: 6 digits, through u32.  At most 6 digits are parsed, so
\* the value is below 10^6 < 2^30 and the u32 parse cannot fail.
get_frac16_dec(frac, nbits) ==
  LET end == Min(Len(frac), 6)
      rem == 6 - end
      i == ParseDec(SubSeq(frac, 1, end), 30).val * (10 ^ rem)
  IN dec6_to_bin16(i, nbits)

\* -------------------------------------------------------------- wide words

\* A word of 64 or 128 bits (and the 256-bit pairs of words) is beyond the
\* integers of the checker: it is a sequence of base-256 digits, least
\* significant first, without a most significant 0; <<>> is 0.

Max(a, b) == IF a >= b THEN a ELSE b

\* The sequence of a function on 1..n, every element evaluated once.
WSeq(f) == <<>> \o f

WLimb(a, i) == IF i >= 1 /\ i <= Len(a) THEN a[i] ELSE 0

\* The top index of a non-empty set of indices.
Top(S) == CHOOSE i \in S : \A j \in S : j <= i

\* a without its most significant 0 digits.
WTrim(a) ==
  IF a = <<>> THEN <<>>
  ELSE LET nz == {i \in 1..Len(a) : a[i] # 0}
       IN IF nz = {} THEN <<>> ELSE SubSeq(a, 1, Top(nz))

\* One round of carries: every column keeps its low digit and takes the high
\* part of the column below.
WCarryRound(cols) ==
  WSeq([i \in 1..(Len(cols) + 1) |-> (WLimb(cols, i) % 256) + (WLimb(cols, i - 1) \div 256)])

\* The carry, 0 or 1, into column i of columns that are at most 256: it comes
\* from the top column below i that is not 255.
WCarryIn(cols, i) ==
  LET below == {j \in 1..(i - 1) : cols[j] # 255}
  IN IF below # {} /\ cols[Top(below)] = 256 THEN 1 ELSE 0

\* The word of a sequence of column sums: rounds of carries until no column
\* is above 256, then the carries that are left.
RECURSIVE WNorm(_)
WNorm(cols) ==
  IF cols = <<>> THEN <<>>
  ELSE IF \E i \in 1..Len(cols) : cols[i] > 256 THEN WNorm(WCarryRound(cols))
  ELSE WTrim(WSeq([i \in 1..(Len(cols) + 1) |-> (WLimb(cols, i) + WCarryIn(cols, i)) % 256]))

\* A literal or a small value as a wide word.
WFromInt(n) == WNorm(<<n>>)

\* a + b, a * b, a * m (m small), without a width.
WAdd(a, b) == WNorm(WSeq([i \in 1..Max(Len(a), Len(b)) |-> WLimb(a, i) + WLimb(b, i)]))

\* The sum of a[i] * b[k + 1 - i] for i in lo..hi, by halves.
RECURSIVE WColSum(_, _, _, _, _)
WColSum(a, b, k, lo, hi) ==
  IF lo > hi THEN 0
  ELSE IF lo = hi THEN a[lo] * WLimb(b, k + 1 - lo)
  ELSE WColSum(a, b, k, lo, (lo + hi) \div 2) + WColSum(a, b, k, (lo + hi) \div 2 + 1, hi)

WMul(a, b) ==
  IF a = <<>> \/ b = <<>> THEN <<>>
  ELSE WNorm(WSeq([k \in 1..(Len(a) + Len(b) - 1) |-> WColSum(a, b, k, 1, Len(a))]))

WMulSmall(a, m) == WNorm(WSeq([i \in 1..Len(a) |-> a[i] * m]))

\* The borrow, 0 or 1, into digit i of a - b: it comes from the top digit
\* below i where a and b differ.
WBorrowIn(a, b, i) ==
  LET below == {j \in 1..(i - 1) : a[j] # WLimb(b, j)}
  IN IF below # {} /\ a[Top(below)] < WLimb(b, Top(below)) THEN 1 ELSE 0

\* a - b for a >= b.
WSub(a, b) ==
  WTrim(WSeq([i \in 1..Len(a) |-> (a[i] - WLimb(b, i) - WBorrowIn(a, b, i) + 256) % 256]))

\* a < b, a >= b: the most significant digit that differs decides.
WLess(a, b) ==
  LET diff == {i \in 1..Max(Len(a), Len(b)) : WLimb(a, i) # WLimb(b, i)}
  IN diff # {} /\ WLimb(a, Top(diff)) < WLimb(b, Top(diff))

WGeq(a, b) == ~WLess(a, b)

\* <<digits, remainder>> of a[lo..hi] / d for a small d, rem being the
\* remainder of the digits above hi: by halves, the upper half first.
RECURSIVE WDivSmallFrom(_, _, _, _, _)
WDivSmallFrom(a, lo, hi, rem, d) ==
  IF lo > hi THEN <<<<>>, rem>>
  ELSE IF lo = hi THEN <<<<(rem * 256 + a[lo]) \div d>>, (rem * 256 + a[lo]) % d>>
  ELSE LET high == WDivSmallFrom(a, (lo + hi) \div 2 + 1, hi, rem, d)
           low == WDivSmallFrom(a, lo, (lo + hi) \div 2, high[2], d)
       IN IF high[1] = <<>> THEN low ELSE <<low[1] \o high[1], low[2]>>

\* a / d for a small d.
WDivSmall(a, d) == IF d = 1 THEN a ELSE WTrim(WDivSmallFrom(a, 1, Len(a), 0, d)[1])

\* a << k without a width, a >> k, a & (2^w - 1), a | b.
WShlFull(a, k) ==
  IF a = <<>> THEN <<>>
  ELSE [i \in 1..(k \div 8) |-> 0]
         \o WTrim(WSeq([i \in 1..(Len(a) + 1) |->
                     ((WLimb(a, i) * 2 ^ (k % 8)) % 256)
                       + ((WLimb(a, i - 1) * 2 ^ (k % 8)) \div 256)]))

WShr(a, k) ==
  WTrim(WSeq([i \in 1..Max(Len(a) - (k \div 8), 0) |->
           (WLimb(a, i + (k \div 8)) \div (2 ^ (k % 8)))
             + (WLimb(a, i + (k \div 8) + 1) % (2 ^ (k % 8))) * (2 ^ (8 - (k % 8)))]))

WLow(a, w) ==
  WTrim(WSeq([i \in 1..Min(Len(a), (w + 7) \div 8) |->
           IF i = (w \div 8) + 1 THEN a[i] % (2 ^ (w % 8)) ELSE a[i]]))

WOr(a, b) == WTrim(WSeq([i \in 1..Max(Len(a), Len(b)) |-> BitOr(WLimb(a, i), WLimb(b, i))]))

\* a << k on a w-bit word: the bits shifted past bit w-1 are lost.
WShl(a, k, w) == WLow(WShlFull(a, k), w)

\* 2^k and b^e (b small) as wide words.
WPow2(k) == WShlFull(<<1>>, k)

RECURSIVE WPow(_, _)
WPow(b, e) ==
  IF e = 0 THEN <<1>>
  ELSE LET h == WPow(b, e \div 2)
       IN IF e % 2 = 0 THEN WMul(h, h) ELSE WMulSmall(WMul(h, h), b)

\* a + b on a w-bit word, where the sum wraps.
WWrappingAdd(a, b, w) == WLow(WAdd(a, b), w)

\* A bug: the carry out of the low word is dropped.
WOverflowingAddNoCarry(a, b, w) == [val |-> WLow(WAdd(a, b), w), overflow |-> FALSE]

\* overflowing_add on a w-bit word.
WOverflowingAdd(a, b, w) ==
  [val |-> WLow(WAdd(a, b), w), overflow |-> WGeq(WAdd(a, b), WPow2(w))]

\* A word below 2^24 as an integer.
WToInt(a) == WLimb(a, 1) + 256 * WLimb(a, 2) + 65536 * WLimb(a, 3)

\* a % d for a small d.
WModSmall(a, d) == WDivSmallFrom(a, 1, Len(a), 0, d)[2]

\* A factor 5^9, 5 or 2 of d.
WFactor(d) ==
  IF WModSmall(d, 5 ^ 9) = 0 THEN 5 ^ 9 ELSE IF WModSmall(d, 5) = 0 THEN 5 ELSE 2

\* a / d for a divisor d = 2^i * 5^j * m with m < 2^22, as 5^d * 2 is: floor
\* division composes, so the factors of d are divided out of both one at a
\* time, until d is small.
RECURSIVE WDiv(_, _)
WDiv(a, d) ==
  IF a = <<>> \/ Len(d) < 3 \/ (Len(d) = 3 /\ d[3] < 64) THEN WDivSmall(a, WToInt(d))
  ELSE WDiv(WDivSmall(a, WFactor(d)), WDivSmall(d, WFactor(d)))

\* --------------------------------------- decimal scaled rounding, wide words

WNone == [some |-> FALSE, val |-> <<>>]

WSome(v) == [some |-> TRUE, val |-> v]

\* The let statements of a body are evaluated in program order: a run is the
\* record of the locals, in that order, and of the result.

\* A bug: the numerator is shifted one bit too far.
DecRunShiftsOneMore(val, nbits, d, w) ==
  LET dump_bits == w - nbits
      divisor == WMulSmall(WPow(5, d), 2)
      shl == WShlFull(val, w - d + 2)
      shift == WShr(WLow(shl, 2 * w), dump_bits)
      sum == WAdd(shift, WDivSmall(divisor, 2))
      round == WLow(sum, 2 * w)
      whole == WShr(round, nbits)
  IN [divisor |-> divisor, shl |-> shl, shift |-> shift, sum |-> sum, round |-> round,
      whole |-> whole,
      some |-> WLess(whole, divisor),
      val |-> IF WLess(whole, divisor) THEN WLow(WDiv(round, divisor), w) ELSE <<>>,
      lost |-> WGeq(shl, WPow2(2 * w)) \/ WGeq(sum, WPow2(2 * w))]

\* The body shared by dec3_to_bin8, dec6_to_bin16, dec13_to_bin32 and
\* dec27_to_bin64: d digits, a result of w bits, computed in a word of 2w
\* bits.  lost records whether the left shift dropped a set bit or the
\* addition of divisor / 2 left the 2w-bit word.
DecRun(val, nbits, d, w) ==
  LET dump_bits == w - nbits
      divisor == WMulSmall(WPow(5, d), 2)
      shl == WShlFull(val, w - d + 1)
      shift == WShr(WLow(shl, 2 * w), dump_bits)
      sum == WAdd(shift, WDivSmall(divisor, 2))
      round == WLow(sum, 2 * w)
      whole == WShr(round, nbits)
  IN [divisor |-> divisor, shl |-> shl, shift |-> shift, sum |-> sum, round |-> round,
      whole |-> whole,
      some |-> WLess(whole, divisor),
      val |-> IF WLess(whole, divisor) THEN WLow(WDiv(round, divisor), w) ELSE <<>>,
      lost |-> WGeq(shl, WPow2(2 * w)) \/ WGeq(sum, WPow2(2 * w))]

Option(run) == [some |-> run.some, val |-> run.val]

\* val: u64, result: u32.
dec13_to_bin32(val, nbits) == Option(DecRun(val, nbits, 13, 32))

\* val: u128, result: u64.
dec27_to_bin64(val, nbits) == Option(DecRun(val, nbits, 27, 64))

\* The let statements of mul_hi_lo, in groups: each group is an operator from
\* the record of the locals before it to that record extended by its own, in
\* program order.  The lost fields record whether a wrapping_mul or a plain
\* addition left the 128-bit word.

\* (lhs_hi, lhs_lo) and (rhs_hi, rhs_lo).
MulHiLoHalves(lhs, rhs) ==
  [lhs_hi |-> WShr(lhs, 64), lhs_lo |-> WLow(lhs, 64),
   rhs_hi |-> WShr(rhs, 64), rhs_lo |-> WLow(rhs, 64)]

\* The four wrapping_mul.
MulHiLoProducts(s) ==
  s @@ [lhs_lo_rhs_lo |-> WLow(WMul(s.lhs_lo, s.rhs_lo), 128),
        lhs_hi_rhs_lo |-> WLow(WMul(s.lhs_hi, s.rhs_lo), 128),
        lhs_lo_rhs_hi |-> WLow(WMul(s.lhs_lo, s.rhs_hi), 128),
        lhs_hi_rhs_hi |-> WLow(WMul(s.lhs_hi, s.rhs_hi), 128),
        lost_mul |-> \/ WGeq(WMul(s.lhs_lo, s.rhs_lo), WPow2(128))
                     \/ WGeq(WMul(s.lhs_hi, s.rhs_lo), WPow2(128))
                     \/ WGeq(WMul(s.lhs_lo, s.rhs_hi), WPow2(128))
                     \/ WGeq(WMul(s.lhs_hi, s.rhs_hi), WPow2(128))]

\* col01 to (col12, carry_col3).
MulHiLoCols(s) ==
  LET col01 == s.lhs_lo_rhs_lo
      col01_hi == WShr(col01, 64)
      partial_col12 == WWrappingAdd(s.lhs_hi_rhs_lo, col01_hi, 128)
      c == WOverflowingAdd(partial_col12, s.lhs_lo_rhs_hi, 128)
  IN s @@ [col01_hi |-> col01_hi, col01_lo |-> WLow(col01, 64),
           partial_col12 |-> partial_col12,
           col12 |-> c.val, carry_col3 |-> c.overflow,
           lost_col12 |-> WGeq(WAdd(s.lhs_hi_rhs_lo, col01_hi), WPow2(128))]

\* A bug: carry_col3 is not added into ans23.
MulHiLoAnsDropsCarry(s) ==
  LET col12_hi == WShr(s.col12, 64)
      col12_lo == WLow(s.col12, 64)
      ans01 == WWrappingAdd(WShl(col12_lo, 64, 128), s.col01_lo, 128)
      partial_ans23 == WWrappingAdd(s.lhs_hi_rhs_hi, col12_hi, 128)
      carry == <<>>
      ans23 == WWrappingAdd(partial_ans23, carry, 128)
  IN s @@ [col12_hi |-> col12_hi, col12_lo |-> col12_lo, ans01 |-> ans01,
           partial_ans23 |-> partial_ans23, ans23 |-> ans23,
           lost |-> \/ s.lost_mul
                    \/ s.lost_col12
                    \/ WGeq(WAdd(WShl(col12_lo, 64, 128), s.col01_lo), WPow2(128))
                    \/ WGeq(WAdd(s.lhs_hi_rhs_hi, col12_hi), WPow2(128))
                    \/ WGeq(WAdd(partial_ans23, carry), WPow2(128))]

\* (col12_hi, col12_lo) to (ans23, ans01).
MulHiLoAns(s) ==
  LET col12_hi == WShr(s.col12, 64)
      col12_lo == WLow(s.col12, 64)
      ans01 == WWrappingAdd(WShl(col12_lo, 64, 128), s.col01_lo, 128)
      partial_ans23 == WWrappingAdd(s.lhs_hi_rhs_hi, col12_hi, 128)
      carry == IF s.carry_col3 THEN WPow2(64) ELSE <<>>
      ans23 == WWrappingAdd(partial_ans23, carry, 128)
  IN s @@ [col12_hi |-> col12_hi, col12_lo |-> col12_lo, ans01 |-> ans01,
           partial_ans23 |-> partial_ans23, ans23 |-> ans23,
           lost |-> \/ s.lost_mul
                    \/ s.lost_col12
                    \/ WGeq(WAdd(WShl(col12_lo, 64, 128), s.col01_lo), WPow2(128))
                    \/ WGeq(WAdd(s.lhs_hi_rhs_hi, col12_hi), WPow2(128))
                    \/ WGeq(WAdd(partial_ans23, carry), WPow2(128))]

MulHiLoRun(lhs, rhs) == MulHiLoAns(MulHiLoCols(MulHiLoProducts(MulHiLoHalves(lhs, rhs))))

\* <<high word, low word>> of the 256-bit product of two u128.
mul_hi_lo(lhs, rhs) == <<MulHiLoRun(lhs, rhs).ans23, MulHiLoRun(lhs, rhs).ans01>>

\* The quotient of the two-word dividend by a divisor that makes it fit one word.
div_wide(dividend_hi, dividend_lo, divisor) ==
  LET dividend == WAdd(WShlFull(dividend_hi, 128), dividend_lo)
  IN WDiv(dividend, divisor)

\* The let statements of dec27_27_to_bin128, in groups, in the same way.
\* The lost fields record whether an increment of a high word left the 128-bit
\* word or a shift of comb_hi dropped a set bit.

\* dump_bits, divisor and (hi_hi, hi_lo).
Dec27_27Mul(hi, lo, nbits) ==
  [lo |-> lo, nbits |-> nbits, dump_bits |-> 128 - nbits,
   divisor |-> WMulSmall(WPow(5, 54), 2),
   m |-> mul_hi_lo(hi, WPow(10, 27))]

\* (comb_lo, overflow) and comb_hi.
Dec27_27Comb(s) ==
  LET hi_hi == s.m[1]
      hi_lo == s.m[2]
      c == WOverflowingAdd(hi_lo, s.lo, 128)
  IN s @@ [hi_hi |-> hi_hi, hi_lo |-> hi_lo, comb_lo |-> c.val,
           comb_hi |-> IF c.overflow THEN WWrappingAdd(hi_hi, <<1>>, 128) ELSE hi_hi,
           lost_comb |-> c.overflow /\ WGeq(WAdd(hi_hi, <<1>>), WPow2(128))]

\* The match on nbits.cmp(&(54 - 1)).
Dec27_27Shift(s) ==
  LET nbits == s.nbits
      shr == (54 - 1) - nbits
      shl == nbits - (54 - 1)
  IN s @@ [shift_lo |-> IF nbits < 54 - 1
                        THEN WOr(WShr(s.comb_lo, shr), WShl(s.comb_hi, 128 - shr, 128))
                        ELSE IF nbits > 54 - 1 THEN WShl(s.comb_lo, shl, 128)
                        ELSE s.comb_lo,
           shift_hi |-> IF nbits < 54 - 1 THEN WShr(s.comb_hi, shr)
                        ELSE IF nbits > 54 - 1
                             THEN WOr(WShl(s.comb_hi, shl, 128),
                                      WShr(s.comb_lo, 128 - shl))
                        ELSE s.comb_hi,
           lost_shift |-> nbits > 54 - 1 /\ WShr(s.comb_hi, 128 - shl) # <<>>]

\* (round_lo, overflow) and round_hi.
Dec27_27Round(s) ==
  LET r == WOverflowingAdd(s.shift_lo, WDivSmall(s.divisor, 2), 128)
  IN s @@ [round_lo |-> r.val,
           round_hi |-> IF r.overflow THEN WWrappingAdd(s.shift_hi, <<1>>, 128)
                        ELSE s.shift_hi,
           lost_round |-> r.overflow /\ WGeq(WAdd(s.shift_hi, <<1>>), WPow2(128))]

\* whole_compare and the result.
Dec27_27Quot(s) ==
  LET whole_compare == IF s.dump_bits = 0 THEN s.round_hi
                       ELSE IF s.nbits = 0 THEN s.round_lo
                       ELSE WOr(WShr(s.round_lo, s.nbits),
                                WShl(s.round_hi, s.dump_bits, 128))
  IN s @@ [whole_compare |-> whole_compare,
           some |-> WLess(whole_compare, s.divisor),
           val |-> IF WLess(whole_compare, s.divisor)
                   THEN div_wide(s.round_hi, s.round_lo, s.divisor) ELSE <<>>,
           lost |-> s.lost_comb \/ s.lost_shift \/ s.lost_round]

\* The body of dec27_27_to_bin128.
Dec27_27Run(hi, lo, nbits) ==
  Dec27_27Quot(Dec27_27Round(Dec27_27Shift(Dec27_27Comb(Dec27_27Mul(hi, lo, nbits)))))

dec27_27_to_bin128(hi, lo, nbits) == Option(Dec27_27Run(hi, lo, nbits))

\* str::parse::<u128>() of the digits s[lo..hi], as a wide word: the decimal
\* value, computed by halves.  The strings parsed have at most 27 digits, and
\* 10^27 < 2^128, so the parse cannot overflow.
RECURSIVE WParseDecFrom(_, _, _)
WParseDecFrom(s, lo, hi) ==
  IF lo > hi THEN <<>>
  ELSE IF lo = hi THEN WFromInt(DigitVal(s[lo]))
  ELSE WAdd(WMul(WParseDecFrom(s, lo, (lo + hi) \div 2), WPow(10, hi - (lo + hi) \div 2)),
            WParseDecFrom(s, (lo + hi) \div 2 + 1, hi))

\* A bug: the second group is not padded to 27 digits.
Frac128DecArgsLoUnpadded(frac) ==
  IF Len(frac) <= 27
  THEN LET rem == 27 - Len(frac)
           hi == WMul(WParseDecFrom(frac, 1, Len(frac)), WPow(10, rem))
       IN <<hi, <<>>>>
  ELSE LET hi == WParseDecFrom(frac, 1, 27)
           lo_end == Min(Len(frac), 54)
           lo == WParseDecFrom(frac, 28, lo_end)
       IN <<hi, lo>>

\* (hi, lo) of get_frac128_dec.  frac[..27] is s[1..27] and frac[27..lo_end]
\* is s[28..lo_end].
Frac128DecArgs(frac) ==
  IF Len(frac) <= 27
  THEN LET rem == 27 - Len(frac)
           hi == WMul(WParseDecFrom(frac, 1, Len(frac)), WPow(10, rem))
       IN <<hi, <<>>>>
  ELSE LET hi == WParseDecFrom(frac, 1, 27)
           lo_end == Min(Len(frac), 54)
           rem == 54 - lo_end
           lo == WMul(WParseDecFrom(frac, 28, lo_end), WPow(10, rem))
       IN <<hi, lo>>

\* The body of get_frac128_dec: the arguments of its call, then what the call
\* returns.
Frac128DecRun(frac, nbits) ==
  LET args == Frac128DecArgs(frac)
  IN [hi |-> args[1], lo |-> args[2],
      ret |-> dec27_27_to_bin128(args[1], args[2], nbits)]

get_frac128_dec(frac, nbits) == Frac128DecRun(frac, nbits).ret

\* ------------------------------------------- width composition: $int, $frac

\* A bug: the half-width result is widened but not shifted into the upper half.
MapShlNoShift(opt, k, w) == opt

\* map(f) of an Option.
MapShl(opt, k, w) == IF opt.some THEN Some(Shl(opt.val, k, w)) ELSE None

\* A bug: the range check of $int looks one bit too high.
FitsBitsOffByOne(parsed_int, nbits, w) ==
  ~(w - nbits > 1 /\ Shr(parsed_int, nbits + 1) # 0)

\* The range check of $int: remove_bits > 0 && (parsed_int >> nbits) != 0 fails it.
FitsBits(parsed_int, nbits, w) == ~(w - nbits > 0 /\ Shr(parsed_int, nbits) # 0)

\* A bug: the two tests of an empty span are in the wrong order.
IntBodyEmptyIsNone(w, int, radix, nbits, whole_frac) ==
  IF int = <<>> \/ nbits = 0 THEN None
  ELSE IF int = <<>> /\ ~whole_frac THEN Some(0)
  ELSE LET parsed == CASE radix = 2 -> bin_str_int_to_bin(int, w)
                       [] radix = 8 -> oct_str_int_to_bin(int, w)
                       [] radix = 16 -> hex_str_int_to_bin(int, w)
                       [] radix = 10 -> ParseDec(int, w)
           parsed_int == IF ~parsed.some THEN None
                         ELSE IF whole_frac THEN CheckedAdd(parsed.val, 1, w)
                         ELSE parsed
           remove_bits == w - nbits
       IN IF ~parsed_int.some THEN None
          ELSE IF ~FitsBits(parsed_int.val, nbits, w) THEN None
          ELSE Some(Shl(parsed_int.val, remove_bits, w))

\* The body of $int after the half-width shortcut, on a w-bit word.
IntBody(w, int, radix, nbits, whole_frac) ==
  IF int = <<>> /\ ~whole_frac THEN Some(0)
  ELSE IF int = <<>> \/ nbits = 0 THEN None
  ELSE LET parsed == CASE radix = 2 -> bin_str_int_to_bin(int, w)
                       [] radix = 8 -> oct_str_int_to_bin(int, w)
                       [] radix = 16 -> hex_str_int_to_bin(int, w)
                       [] radix = 10 -> ParseDec(int, w)
           parsed_int == IF ~parsed.some THEN None
                         ELSE IF whole_frac THEN CheckedAdd(parsed.val, 1, w)
                         ELSE parsed
           remove_bits == w - nbits
       IN IF ~parsed_int.some THEN None
          ELSE IF ~FitsBits(parsed_int.val, nbits, w) THEN None
          ELSE Some(Shl(parsed_int.val, remove_bits, w))

get_int8(int, radix, nbits, whole_frac) == IntBody(8, int, radix, nbits, whole_frac)

get_int16(int, radix, nbits, whole_frac) ==
  IF nbits <= 8 THEN MapShl(get_int8(int, radix, nbits, whole_frac), 8, 16)
  ELSE IntBody(16, int, radix, nbits, whole_frac)

\* The body of $frac after the half-width shortcut, on a w-bit word.
FracBody(w, frac, radix, nbits) ==
  IF frac = <<>> THEN Some(0)
  ELSE CASE radix = 2 -> bin_str_frac_to_bin(frac, nbits, w)
         [] radix = 8 -> oct_str_frac_to_bin(frac, nbits, w)
         [] radix = 16 -> hex_str_frac_to_bin(frac, nbits, w)
         [] radix = 10 -> IF w = 8 THEN get_frac8_dec(frac, nbits)
                          ELSE get_frac16_dec(frac, nbits)

get_frac8(frac, radix, nbits) == FracBody(8, frac, radix, nbits)

get_frac16(frac, radix, nbits) ==
  IF nbits <= 8 THEN get_frac8(frac, radix, nbits)
  ELSE FracBody(16, frac, radix, nbits)

GetInt(w, int, radix, nbits, whole_frac) ==
  IF w = 8 THEN get_int8(int, radix, nbits, whole_frac)
  ELSE get_int16(int, radix, nbits, whole_frac)

GetFrac(w, frac, radix, nbits) ==
  IF w = 8 THEN get_frac8(frac, radix, nbits) ELSE get_frac16(frac, radix, nbits)

\* ------------------------------------------------------ $all: the assembly

Ok(bits) == [ok |-> TRUE, kind |-> "none", bits |-> bits]

Err(kind) == [ok |-> FALSE, kind |-> kind, bits |-> 0]

\* A bug: the bits are inverted, not negated.
WrappingNegInverts(abs, w) == (2 ^ w - 1 - abs) % (2 ^ w)

\* abs.wrapping_neg() on a w-bit word.
WrappingNeg(abs, w) == (2 ^ w - abs) % (2 ^ w)

\* abs as $Bits: the signed reading of a w-bit pattern.
AsSigned(bits, w) == IF bits >= 2 ^ (w - 1) THEN bits - 2 ^ w ELSE bits

\* $all of impl_from_str_unsigned after parse_bounds, on the spans it returned.
AssembleUnsigned(w, p, radix, int_nbits, frac_nbits) ==
  LET f == GetFrac(w, p.frac, radix, frac_nbits)
      frac == IF f.some THEN f.val ELSE 0
      whole_frac == ~f.some
      int == GetInt(w, p.int, radix, int_nbits, whole_frac)
  IN IF ~int.some THEN Err("Overflow") ELSE Ok(BitOr(int.val, frac))

\* max_abs of impl_from_str_signed: Unsigned::MSB for a negative literal, else MSB - 1.
MaxAbs(neg, w) == IF neg THEN 2 ^ (w - 1) ELSE 2 ^ (w - 1) - 1

\* $all of impl_from_str_signed after parse_bounds.
AssembleSigned(w, p, radix, int_nbits, frac_nbits) ==
  LET f == GetFrac(w, p.frac, radix, frac_nbits)
      abs_frac == IF f.some THEN f.val ELSE 0
      whole_frac == ~f.some
      abs_int == GetInt(w, p.int, radix, int_nbits, whole_frac)
      abs == BitOr(abs_int.val, abs_frac)
      max_abs == MaxAbs(p.neg, w)
  IN IF ~abs_int.some THEN Err("Overflow")
     ELSE IF abs > max_abs THEN Err("Overflow")
     ELSE IF p.neg THEN Ok(AsSigned(WrappingNeg(abs, w), w))
     ELSE Ok(AsSigned(abs, w))

\* The legal digits of a text, in order.
DigitsOnly(s, radix) == SelectSeq(s, LAMBDA b : IsDigit(b, radix))

\* A bug: the digits are converted before the text is validated, so the
\* Overflow of the digits comes before a lexical error.
FromStrUnsignedConvertsFirst(w, s, radix, int_nbits, frac_nbits) ==
  LET p == parse_bounds(s, FALSE, radix)
      d == parse_bounds(DigitsOnly(s, radix), FALSE, radix)
  IN IF d.ok /\ ~AssembleUnsigned(w, d, radix, int_nbits, frac_nbits).ok
     THEN Err("Overflow")
     ELSE IF ~p.ok THEN Err(p.kind)
     ELSE AssembleUnsigned(w, p, radix, int_nbits, frac_nbits)

\* from_str_u8 / from_str_u16 (w = 8 / 16).
FromStrUnsigned(w, s, radix, int_nbits, frac_nbits) ==
  LET p == parse_bounds(s, FALSE, radix)
  IN IF ~p.ok THEN Err(p.kind) ELSE AssembleUnsigned(w, p, radix, int_nbits, frac_nbits)

\* from_str_i8 / from_str_i16 (w = 8 / 16).
FromStrSigned(w, s, radix, int_nbits, frac_nbits) ==
  LET p == parse_bounds(s, TRUE, radix)
  IN IF ~p.ok THEN Err(p.kind) ELSE AssembleSigned(w, p, radix, int_nbits, frac_nbits)

\* from_str_radix of FixedU<w>/FixedI<w> with frac_nbits fraction bits.
from_str_radix(signed, w, s, radix, frac_nbits) ==
  IF signed THEN FromStrSigned(w, s, radix, w - frac_nbits, frac_nbits)
  ELSE FromStrUnsigned(w, s, radix, w - frac_nbits, frac_nbits)

\* ------------------------------------------------- the operations that panic

\* Each operator below follows the control flow of the function it is named
\* after and is TRUE when an operation on the way panics in a build with
\* overflow checks: a shift by the width of its operand or more, a
\* subtraction below zero, an addition or multiplication that leaves its
\* word, an unwrap() of None, a slice off a character boundary, a failed
\* debug_assert, an unreachable!().

\* x << k or x >> k on a w-bit word; k is a u32 computed by a subtraction.
ShiftPanics(k, w) == k < 0 \/ k >= w

\* lhs + rhs or lhs * rhs on a w-bit word, given the exact result: it is
\* 2^w or more (2^32 itself is not written out).
LeavesWord(exact, w) == exact \div (2 ^ (w - 2)) >= 4

\* byte - b'0', and the u8 addition in unchecked_hex_digit.
ValOfPanics(byte, k) ==
  IF k = 4 THEN (byte % 16) + (IF byte >= 64 THEN 9 ELSE 0) >= 256
  ELSE byte < ZERO

\* The loop of {bin,oct,hex}_str_int_to_bin from the i-th byte on.
RECURSIVE IntFoldPanics(_, _, _, _, _, _)
IntFoldPanics(s, i, acc, leading_zeros, k, w) ==
  IF i > Len(s) THEN FALSE
  ELSE \/ ValOfPanics(s[i], k)
       \/ /\ leading_zeros >= k
          /\ \/ ShiftPanics(k, w)
             \/ LeavesWord(Shl(acc, k, w) + ValOf(s[i], k), w)
             \/ IntFoldPanics(s, i + 1, Shl(acc, k, w) + ValOf(s[i], k),
                              leading_zeros - k, k, w)

\* {bin,oct,hex}_str_int_to_bin: the debug_assert, bytes.next().unwrap(), the loop.
StrIntPanics(s, k, w) ==
  \/ s = <<>>
  \/ s # <<>> /\ ValOfPanics(s[1], k)
  \/ s # <<>> /\ IntFoldPanics(s, 2, ValOf(s[1], k), LeadingZeros(ValOf(s[1], k), w), k, w)

\* The loop of {bin,oct,hex}_str_frac_to_bin from the i-th byte on; val is a u8.
RECURSIVE FracFoldPanics(_, _, _, _, _, _, _)
FracFoldPanics(s, i, acc, rem_bits, k, nbits, w) ==
  IF i > Len(s) THEN ShiftPanics(rem_bits, w)
  ELSE \/ ValOfPanics(s[i], k)
       \/ IF rem_bits < k THEN
            LET val == ValOf(s[i], k)
                kept == IF k = 1 THEN acc
                        ELSE Shl(acc, rem_bits, w) + Shr(val, k - rem_bits)
                rounded == CheckedAdd(kept, RoundBit(val, k, rem_bits), w)
            IN \/ k # 1 /\ \/ ShiftPanics(rem_bits, w)
                           \/ ShiftPanics(k - rem_bits, 8)
                           \/ ShiftPanics(k - 1 - rem_bits, 8)
                           \/ LeavesWord(kept, w)
               \/ rounded.some /\ w - nbits # 0 /\ ShiftPanics(nbits, w)
          ELSE \/ ShiftPanics(k, w)
               \/ LeavesWord(Shl(acc, k, w) + ValOf(s[i], k), w)
               \/ FracFoldPanics(s, i + 1, Shl(acc, k, w) + ValOf(s[i], k),
                                 rem_bits - k, k, nbits, w)

\* {bin,oct,hex}_str_frac_to_bin: the debug_assert, dump_bits, the loop.
StrFracPanics(s, k, nbits, w) ==
  \/ s = <<>>
  \/ w - nbits < 0
  \/ s # <<>> /\ w - nbits >= 0 /\ FracFoldPanics(s, 1, 0, nbits, k, nbits, w)

\* dec3_to_bin8 (d = 3, w = 8) and dec6_to_bin16 (d = 6, w = 16), in a word
\* of 2w bits.
DecPanics(val, nbits, d, w) ==
  \/ val >= 10 ^ d
  \/ /\ val < 10 ^ d
     /\ \/ ShiftPanics(w - nbits, 2 * w)
        \/ ShiftPanics(nbits, 2 * w)
        \/ /\ ~ShiftPanics(w - nbits, 2 * w)
           /\ LeavesWord(Shr(Shl(val, w - d + 1, 2 * w), w - nbits) + 5 ^ d, 2 * w)

\* s[a..b], 0-based: a <= b <= len and both on a character boundary, which a
\* UTF-8 continuation byte (0x80..0xBF) does not start.
IsCharBoundary(s, index) ==
  index = 0 \/ index = Len(s) \/ (index < Len(s) /\ s[index + 1] \notin 128..191)

SlicePanics(s, a, b) ==
  a < 0 \/ a > b \/ b > Len(s) \/ ~IsCharBoundary(s, a) \/ ~IsCharBoundary(s, b)

\* $frac_dec: frac[..end], parse().unwrap(), the multiplication, $decode_frac.
\* d digits, result of w bits; the parse of at most d digits stays below 2^30.
FracDecPanics(frac, nbits, d, w) ==
  LET end == Min(Len(frac), d)
      rem == d - end
      i == ParseDec(SubSeq(frac, 1, end), 30)
  IN \/ SlicePanics(frac, 0, end)
     \/ rem < 0
     \/ \E j \in 1..end : frac[j] \notin 48..57
     \/ ~i.some
     \/ i.some /\ rem >= 0 /\ \/ LeavesWord(i.val * (10 ^ rem), 2 * w)
                              \/ DecPanics(i.val * (10 ^ rem), nbits, d, w)

\* A bug: the shift parsed_int >> nbits is not guarded by remove_bits > 0.
IntBodyPanicsUnguardedShift(w, int, radix, nbits, whole_frac) ==
  IF int = <<>> /\ ~whole_frac THEN FALSE
  ELSE IF int = <<>> \/ nbits = 0 THEN FALSE
  ELSE LET parsed == CASE radix = 2 -> bin_str_int_to_bin(int, w)
                       [] radix = 8 -> oct_str_int_to_bin(int, w)
                       [] radix = 16 -> hex_str_int_to_bin(int, w)
                       [] radix = 10 -> ParseDec(int, w)
                       [] OTHER -> None
           parsed_int == IF ~parsed.some THEN None
                         ELSE IF whole_frac THEN CheckedAdd(parsed.val, 1, w)
                         ELSE parsed
           remove_bits == w - nbits
       IN \/ radix \notin {2, 8, 10, 16}
          \/ radix = 2 /\ StrIntPanics(int, 1, w)
          \/ radix = 8 /\ StrIntPanics(int, 3, w)
          \/ radix = 16 /\ StrIntPanics(int, 4, w)
          \/ remove_bits < 0
          \/ /\ parsed_int.some
             /\ IF TRUE
                THEN ShiftPanics(nbits, w)
                     \/ (Shr(parsed_int.val, nbits) = 0 /\ ShiftPanics(remove_bits, w))
                ELSE ShiftPanics(remove_bits, w)

\* The body of $int after the half-width shortcut, on a w-bit word.
IntBodyPanics(w, int, radix, nbits, whole_frac) ==
  IF int = <<>> /\ ~whole_frac THEN FALSE
  ELSE IF int = <<>> \/ nbits = 0 THEN FALSE
  ELSE LET parsed == CASE radix = 2 -> bin_str_int_to_bin(int, w)
                       [] radix = 8 -> oct_str_int_to_bin(int, w)
                       [] radix = 16 -> hex_str_int_to_bin(int, w)
                       [] radix = 10 -> ParseDec(int, w)
                       [] OTHER -> None
           parsed_int == IF ~parsed.some THEN None
                         ELSE IF whole_frac THEN CheckedAdd(parsed.val, 1, w)
                         ELSE parsed
           remove_bits == w - nbits
       IN \/ radix \notin {2, 8, 10, 16}
          \/ radix = 2 /\ StrIntPanics(int, 1, w)
          \/ radix = 8 /\ StrIntPanics(int, 3, w)
          \/ radix = 16 /\ StrIntPanics(int, 4, w)
          \/ remove_bits < 0
          \/ /\ parsed_int.some
             /\ IF remove_bits > 0
                THEN ShiftPanics(nbits, w)
                     \/ (Shr(parsed_int.val, nbits) = 0 /\ ShiftPanics(remove_bits, w))
                ELSE ShiftPanics(remove_bits, w)

\* get_int16 shifts the half-width result by HALF = 8 in a u16.
GetIntPanics(w, int, radix, nbits, whole_frac) ==
  IF w = 16 /\ nbits <= 8
  THEN IntBodyPanics(8, int, radix, nbits, whole_frac) \/ ShiftPanics(8, 16)
  ELSE IntBodyPanics(w, int, radix, nbits, whole_frac)

\* The body of $frac after the half-width shortcut, on a w-bit word.
FracBodyPanics(w, frac, radix, nbits) ==
  IF frac = <<>> THEN FALSE
  ELSE \/ radix \notin {2, 8, 10, 16}
       \/ radix = 2 /\ StrFracPanics(frac, 1, nbits, w)
       \/ radix = 8 /\ StrFracPanics(frac, 3, nbits, w)
       \/ radix = 16 /\ StrFracPanics(frac, 4, nbits, w)
       \/ radix = 10 /\ FracDecPanics(frac, nbits, IF w = 8 THEN 3 ELSE 6, w)

GetFracPanics(w, frac, radix, nbits) ==
  IF w = 16 /\ nbits <= 8 THEN FracBodyPanics(8, frac, radix, nbits)
  ELSE FracBodyPanics(w, frac, radix, nbits)

\* The slices parse_bounds takes after its loop.
ScanFinishPanics(sc, s) ==
  /\ sc.has_any_digit
  /\ \/ /\ sc.trimmed_int_start # NoIndex
        /\ SlicePanics(s, sc.trimmed_int_start,
                       IF sc.point # NoIndex THEN sc.point ELSE Len(s))
     \/ /\ sc.point # NoIndex /\ sc.trimmed_frac_end # NoIndex
        /\ SlicePanics(s, sc.point + 1, sc.trimmed_frac_end)

\* $all after parse_bounds, unsigned or signed: $frac, then $int with the
\* whole_frac $frac gave.
AssemblePanics(w, p, radix, int_nbits, frac_nbits) ==
  \/ GetFracPanics(w, p.frac, radix, frac_nbits)
  \/ /\ ~GetFracPanics(w, p.frac, radix, frac_nbits)
     /\ GetIntPanics(w, p.int, radix, int_nbits,
                     ~GetFrac(w, p.frac, radix, frac_nbits).some)

\* ------------------------------------------------------------ the inputs

Radices == {2, 8, 10, 16}

\* The digits fed for each radix: the ones that sit on a rounding or range
\* boundary of some 8-bit layout, and for radix 16 a letter in both cases.
DigitBytes(radix) ==
  CASE radix = 2 -> {48, 49}
    [] radix = 8 -> {48, 49, 51, 52, 55}
    [] radix = 10 -> {48, 49, 53, 55, 57}
    [] radix = 16 -> {48, 49, 55, 56, 70, 102}
    [] OTHER -> {48, 49, 57, 97}

\* A digit that is too large for the radix.
BadDigit(radix) ==
  CASE radix = 2 -> 50
    [] radix = 8 -> 56
    [] radix = 10 -> 97
    [] radix = 16 -> 103
    [] OTHER -> 122

\* 195 is the first byte of a two-byte UTF-8 character: a non-ASCII byte.
InputBytes(radix) ==
  {PLUS, MINUS, POINT, SPACE, BadDigit(radix), 195} \cup DigitBytes(radix)

\* <<width, frac_nbits>> of the layouts parsed into; int_nbits = width - frac_nbits.
Layouts == {<<8, f>> : f \in 0..8} \cup {<<16, f>> : f \in {0, 4, 8, 12, 16}}

\* ---------------------------------------------------------------- the state

VARIABLES
  pc,          \* "scan" | "parsed" | "done" (a parse); "call" | "ret" (a converter call)
  radix,       \* the radix argument
  can_be_neg,  \* TRUE for a signed layout
  text,        \* the bytes of the text read so far
  scan,        \* the locals of parse_bounds
  parsed,      \* what parse_bounds returned
  layout,      \* <<width, frac_nbits>> of the target type
  result,      \* what from_str_radix returned
  call,        \* a direct call of a converter: its name and arguments
  ret          \* what that call returned

vars == <<pc, radix, can_be_neg, text, scan, parsed, layout, result, call, ret>>

NoParse == ParseErr("none")

NoResult == Err("none")

NoLayout == <<0, 0>>

NoCall == [fn |-> "none", val |-> 0, s |-> <<>>, nbits |-> 0]

Init ==
  /\ pc = "scan"
  /\ radix \in Radices
  /\ can_be_neg \in BOOLEAN
  /\ text = <<>>
  /\ scan = ScanInit
  /\ parsed = NoParse
  /\ layout = NoLayout
  /\ result = NoResult
  /\ call = NoCall
  /\ ret = None

\* One iteration of the loop of parse_bounds on the next byte of the text.
ScanByte ==
  /\ pc = "scan"
  /\ Len(text) < MaxLen
  /\ \E byte \in InputBytes(radix) :
       LET r == ScanStep(scan, Len(text), byte, can_be_neg, radix)
       IN /\ text' = Append(text, byte)
          /\ scan' = r.sc
          /\ pc' = IF r.err = "ok" THEN "scan" ELSE "done"
          /\ result' = IF r.err = "ok" THEN result ELSE Err(r.err)
  /\ UNCHANGED <<radix, can_be_neg, parsed, layout, call, ret>>

\* The end of the text: parse_bounds returns.
ScanEnd ==
  /\ pc = "scan"
  /\ LET p == ScanFinish(scan, text)
     IN /\ parsed' = p
        /\ pc' = IF p.ok THEN "parsed" ELSE "done"
        /\ result' = IF p.ok THEN result ELSE Err(p.kind)
  /\ UNCHANGED <<radix, can_be_neg, text, scan, layout, call, ret>>

\* The rest of from_str_u8 / from_str_u16.
ConvertUnsigned ==
  /\ pc = "parsed"
  /\ ~can_be_neg
  /\ \E l \in Layouts :
       /\ layout' = l
       /\ result' = AssembleUnsigned(l[1], parsed, radix, l[1] - l[2], l[2])
  /\ pc' = "done"
  /\ UNCHANGED <<radix, can_be_neg, text, scan, parsed, call, ret>>

\* The rest of from_str_i8 / from_str_i16.
ConvertSigned ==
  /\ pc = "parsed"
  /\ can_be_neg
  /\ \E l \in Layouts :
       /\ layout' = l
       /\ result' = AssembleSigned(l[1], parsed, radix, l[1] - l[2], l[2])
  /\ pc' = "done"
  /\ UNCHANGED <<radix, can_be_neg, text, scan, parsed, call, ret>>

Next == ScanByte \/ ScanEnd \/ ConvertUnsigned \/ ConvertSigned

Spec == Init /\ [][Next]_vars

\* ------------------------------------------------ parses in another radix

\* Radices the match of parse_bounds has no digit arm for.
OtherRadices == {0, 1, 3, 9, 11, 36}

InitRadix ==
  /\ pc = "scan"
  /\ radix \in OtherRadices
  /\ can_be_neg \in BOOLEAN
  /\ text = <<>>
  /\ scan = ScanInit
  /\ parsed = NoParse
  /\ layout = NoLayout
  /\ result = NoResult
  /\ call = NoCall
  /\ ret = None

\* $all returns at parse_bounds(..)? when the scan fails, so of a parse that
\* never passes the scan only the scan runs.
NextRadix == ScanByte \/ ScanEnd

SpecRadix == InitRadix /\ [][NextRadix]_vars

\* ------------------------------------------- direct calls of the converters

HexDigitBytes == (48..57) \cup (65..70) \cup (97..102)

Dec6Vals ==
  {Stride6 * i : i \in 0..(999999 \div Stride6)}
    \cup ({15625 * k + d : k \in 0..64, d \in {0 - 2, 0 - 1, 0, 1, 2}} \cap (0..999999))

NumCall(fn, val, nbits) == [fn |-> fn, val |-> val, s |-> <<>>, nbits |-> nbits]

StrCall(fn, s, nbits) == [fn |-> fn, val |-> 0, s |-> s, nbits |-> nbits]

\* The arguments of a call: every val and nbits of dec3_to_bin8, the sampled
\* vals of dec6_to_bin16, the decimal spans of at most MaxDecDigits fed digits
\* for get_frac8_dec, and for the radix 2/8/16 fraction converters (called on
\* u8, NBITS = 8) every non-empty digit string of at most MaxFracBits bits.
\* get_int16 and get_frac16 are called, for each radix, on the spans
\* parse_bounds can return: at most MaxSpan fed digits, an integer span not
\* starting and a fraction span not ending with '0', or the empty span;
\* whole_frac of get_int16 is passed in val (1 for true).
CallArgs ==
  \/ /\ radix = 10
     /\ \/ \E v \in 0..999, n \in 0..8 : call = NumCall("dec3_to_bin8", v, n)
        \/ \E v \in Dec6Vals, n \in 0..16 : call = NumCall("dec6_to_bin16", v, n)
        \/ \E m \in 1..MaxDecDigits, n \in 0..8 : \E d \in [1..m -> DigitBytes(10)] :
             call = StrCall("get_frac8_dec", d, n)
        \/ \E m \in 1..MaxFracBits, n \in 0..8 : \E d \in [1..m -> 48..49] :
             call = StrCall("bin_str_frac_to_bin", d, n)
        \/ \E m \in 1..(MaxFracBits \div 3), n \in 0..8 : \E d \in [1..m -> 48..55] :
             call = StrCall("oct_str_frac_to_bin", d, n)
        \/ \E m \in 1..(MaxFracBits \div 4), n \in 0..8 : \E d \in [1..m -> HexDigitBytes] :
             call = StrCall("hex_str_frac_to_bin", d, n)
  \/ \E m \in 0..MaxSpan, n \in 0..16, wf \in 0..1 : \E d \in [1..m -> DigitBytes(radix)] :
       /\ m > 0 => d[1] # ZERO
       /\ call = [fn |-> "get_int16", val |-> wf, s |-> d, nbits |-> n]
  \/ \E m \in 0..MaxSpan, n \in 0..16 : \E d \in [1..m -> DigitBytes(radix)] :
       /\ m > 0 => d[m] # ZERO
       /\ call = StrCall("get_frac16", d, n)

InitConv ==
  /\ pc = "call"
  /\ radix \in Radices
  /\ CallArgs
  /\ ret = None
  /\ can_be_neg = FALSE
  /\ text = <<>>
  /\ scan = ScanInit
  /\ parsed = NoParse
  /\ layout = NoLayout
  /\ result = NoResult

Returns(fn, value) ==
  /\ pc = "call"
  /\ call.fn = fn
  /\ ret' = value
  /\ pc' = "ret"
  /\ UNCHANGED <<radix, can_be_neg, text, scan, parsed, layout, result, call>>

CallDec3 == Returns("dec3_to_bin8", dec3_to_bin8(call.val, call.nbits))

CallDec6 == Returns("dec6_to_bin16", dec6_to_bin16(call.val, call.nbits))

CallBinFrac == Returns("bin_str_frac_to_bin", bin_str_frac_to_bin(call.s, call.nbits, 8))

CallOctFrac == Returns("oct_str_frac_to_bin", oct_str_frac_to_bin(call.s, call.nbits, 8))

CallHexFrac == Returns("hex_str_frac_to_bin", hex_str_frac_to_bin(call.s, call.nbits, 8))

CallFrac8Dec == Returns("get_frac8_dec", get_frac8_dec(call.s, call.nbits))

CallInt16 == Returns("get_int16", get_int16(call.s, radix, call.nbits, call.val = 1))

CallFrac16 == Returns("get_frac16", get_frac16(call.s, radix, call.nbits))

NextConv ==
  \/ CallDec3 \/ CallDec6 \/ CallFrac8Dec \/ CallBinFrac \/ CallOctFrac \/ CallHexFrac
  \/ CallInt16 \/ CallFrac16

SpecConv == InitConv /\ [][NextConv]_vars

\* ------------------------------------ direct calls of the decimal converters

\* A decimal literal written in groups of three digits, as in the source.
RECURSIVE WDecFrom(_, _, _)
WDecFrom(groups, lo, hi) ==
  IF lo > hi THEN <<>>
  ELSE IF lo = hi THEN WFromInt(groups[lo])
  ELSE WAdd(WMul(WDecFrom(groups, lo, (lo + hi) \div 2), WPow(1000, hi - (lo + hi) \div 2)),
            WDecFrom(groups, (lo + hi) \div 2 + 1, hi))

WDec(groups) == WDecFrom(groups, 1, Len(groups))

Nines27 == WSub(WPow(10, 27), <<1>>)

\* The values tests::check_dec13 and check_dec27 visit for iter in
\* 0..MaxOffset, limit being 10^d.
TestVals(limit) ==
  UNION {{WFromInt(iter),
          WSub(WDivSmall(limit, 4), WFromInt(1 + iter)),
          WAdd(WDivSmall(limit, 4), WFromInt(iter)),
          WSub(WDivSmall(limit, 3), WFromInt(1 + iter)),
          WAdd(WDivSmall(limit, 3), WFromInt(iter)),
          WSub(WDivSmall(limit, 2), WFromInt(1 + iter)),
          WAdd(WDivSmall(limit, 2), WFromInt(iter)),
          WSub(limit, WFromInt(iter + 1))} : iter \in 0..MaxOffset}

SmallTestVals(limit) ==
  UNION {{iter, limit \div 4 - 1 - iter, limit \div 4 + iter, limit \div 3 - 1 - iter,
          limit \div 3 + iter, limit \div 2 - 1 - iter, limit \div 2 + iter,
          limit - iter - 1} : iter \in 0..MaxOffset}

\* The 27-digit groups of tests::check_dec27_27, and 1, 5 * 10^26.
Groups27 ==
  {<<>>, <<1>>, Nines27, WMulSmall(WPow(10, 26), 5),
   WDec(<<123, 456, 789, 12, 345, 678, 901, 234, 567>>),
   WDec(<<987, 654, 321, 98, 765, 432, 109, 876, 543>>)}

Bits128 == {0, 1, 52, 53, 54, 64, 127, 128}

\* The least 54-digit value that rounds up to 2^nbits: 10^54 - floor(10^54 / 2^(nbits+1)).
CarryFrom(nbits) == WSub(WPow(10, 54), WShr(WPow(10, 54), nbits + 1))

\* The 54-digit values at distance 0..MaxOffset on both sides of that boundary.
NearCarry(nbits) ==
  {WSub(CarryFrom(nbits), WFromInt(1 + k)) : k \in 0..MaxOffset}
    \cup {v \in {WAdd(CarryFrom(nbits), WFromInt(k)) : k \in 0..MaxOffset} :
            WLess(v, WPow(10, 54))}

\* The two 27-digit groups of a 54-digit value.
High27(v) ==
  WDivSmall(WDivSmall(WDivSmall(WDivSmall(WDivSmall(v, 10 ^ 6), 10 ^ 6), 10 ^ 6), 10 ^ 6),
            10 ^ 3)

Low27(v) == WSub(v, WMul(High27(v), WPow(10, 27)))

\* The words mul_hi_lo is called on: those within MaxOffset of 0, of the
\* half-word boundary 2^64, of 2^127 and of the top 2^128, and 10^27.
MulVals ==
  {WPow(10, 27)}
    \cup UNION {{WFromInt(k),
                 WSub(WPow2(64), WFromInt(1 + k)), WAdd(WPow2(64), WFromInt(k)),
                 WSub(WPow2(127), WFromInt(1 + k)), WAdd(WPow2(127), WFromInt(k)),
                 WSub(WPow2(128), WPow2(64)),
                 WSub(WPow2(128), WFromInt(1 + k))} : k \in 0..MaxOffset}

\* The decimal fraction spans get_frac128_dec is called on: for every length
\* up to MaxOffset digits past the 55th, all nines, the digits 1234567890
\* repeated, a one at both ends of zeros, and sevens with zeros at the seam
\* of the two groups (digits 26..29).
FracSpans ==
  UNION {{[i \in 1..len |-> 57],
          [i \in 1..len |-> ZERO + (i % 10)],
          [i \in 1..len |-> IF i = 1 \/ i = len THEN 49 ELSE ZERO],
          [i \in 1..len |-> IF i \in 26..29 THEN ZERO ELSE 55]} :
           len \in 1..(55 + MaxOffset)}

\* get_frac128 calls get_frac128_dec for nbits > 64 only.
SpanCall(fn, frac, nbits) ==
  [fn |-> fn, val |-> 0, s |-> frac, nbits |-> nbits, hi |-> <<>>, lo |-> <<>>]

WideCall(fn, hi, lo, nbits) ==
  [fn |-> fn, val |-> 0, s |-> <<>>, nbits |-> nbits, hi |-> hi, lo |-> lo]

SmallCall(fn, val, nbits) ==
  [fn |-> fn, val |-> val, s |-> <<>>, nbits |-> nbits, hi |-> <<>>, lo |-> <<>>]

\* The arguments of the calls: the values of the tests for every converter,
\* for dec27_27_to_bin128 also the values around each carry boundary, and the
\* pairs of MulVals for mul_hi_lo, and the spans of FracSpans for
\* get_frac128_dec.
WideArgs ==
  {SmallCall("dec3_to_bin8", v, n) : v \in SmallTestVals(10 ^ 3), n \in 0..8}
    \cup {SmallCall("dec6_to_bin16", v, n) :
            v \in SmallTestVals(10 ^ 6), n \in {0, 1, 8, 15, 16}}
    \cup {WideCall("dec13_to_bin32", v, <<>>, n) :
            v \in TestVals(WPow(10, 13)), n \in {0, 1, 16, 31, 32}}
    \cup {WideCall("dec27_to_bin64", v, <<>>, n) :
            v \in TestVals(WPow(10, 27)), n \in {0, 1, 32, 63, 64}}
    \cup {WideCall("dec27_27_to_bin128", hi, lo, n) :
            hi \in Groups27, lo \in Groups27, n \in Bits128}
    \cup UNION {{WideCall("dec27_27_to_bin128", High27(v), Low27(v), n) :
                   v \in NearCarry(n)} : n \in Bits128}
    \cup {WideCall("mul_hi_lo", lhs, rhs, 0) : lhs \in MulVals, rhs \in MulVals}
    \cup {SpanCall("get_frac128_dec", frac, n) : frac \in FracSpans, n \in {65, 128}}

InitWide ==
  /\ pc = "test"
  /\ radix = 10
  /\ call = NoCall
  /\ ret = WNone
  /\ can_be_neg = FALSE
  /\ text = <<>>
  /\ scan = ScanInit
  /\ parsed = NoParse
  /\ layout = NoLayout
  /\ result = NoResult

\* A test evaluates the arguments of its next call.
TestCall ==
  /\ pc = "test"
  /\ call' \in WideArgs
  /\ pc' = "call"
  /\ UNCHANGED <<radix, can_be_neg, text, scan, parsed, layout, result, ret>>

CallDec13 == Returns("dec13_to_bin32", dec13_to_bin32(call.hi, call.nbits))

CallDec27 == Returns("dec27_to_bin64", dec27_to_bin64(call.hi, call.nbits))

CallDec27_27 ==
  Returns("dec27_27_to_bin128", dec27_27_to_bin128(call.hi, call.lo, call.nbits))

\* lhs and rhs are passed in hi and lo.
CallMulHiLo == Returns("mul_hi_lo", mul_hi_lo(call.hi, call.lo))

\* get_frac128_dec: hi and lo of the call record the arguments it hands to
\* dec27_27_to_bin128.
CallFrac128Dec ==
  /\ pc = "call"
  /\ call.fn = "get_frac128_dec"
  /\ call' = [call EXCEPT !.hi = Frac128DecRun(call.s, call.nbits).hi,
                          !.lo = Frac128DecRun(call.s, call.nbits).lo]
  /\ ret' = get_frac128_dec(call.s, call.nbits)
  /\ pc' = "ret"
  /\ UNCHANGED <<radix, can_be_neg, text, scan, parsed, layout, result>>

NextWide ==
  \/ TestCall \/ CallDec3 \/ CallDec6 \/ CallDec13 \/ CallDec27 \/ CallDec27_27
  \/ CallMulHiLo \/ CallFrac128Dec

SpecWide == InitWide /\ [][NextWide]_vars

\* ------------------------------------- sealed_int.rs: the working integers

\* A primitive integer of n bits is its bit pattern 0..2^n-1, two's
\* complement when signed.  self < 0 of a signed integer:
IsNegative(bits, n) == bits >= 2 ^ (n - 1)

\* A bug: the magnitude of the minimum saturates at the maximum.
NegAbsSaturating(bits, n, signed) ==
  IF signed /\ IsNegative(bits, n)
  THEN [neg |-> TRUE, abs |-> Min(WrappingNeg(bits, n), 2 ^ (n - 1) - 1)]
  ELSE [neg |-> FALSE, abs |-> bits]

\* neg_abs of sealed_int!, unsigned and signed.
neg_abs(bits, n, signed) ==
  IF signed /\ IsNegative(bits, n)
  THEN [neg |-> TRUE, abs |-> WrappingNeg(bits, n)]
  ELSE [neg |-> FALSE, abs |-> bits]

\* from_neg_abs of sealed_int!, unsigned and signed; panics is the failure of
\* its debug_assert.
from_neg_abs(neg, abs, n, signed) ==
  [panics |-> IF signed THEN ~(abs <= 2 ^ (n - 1)) ELSE ~(~neg \/ abs = 0),
   val |-> IF signed /\ neg THEN WrappingNeg(abs, n) ELSE abs]

\* A bug: the overflow test counts the sign bit of the source as a value bit.
ToFixedOverflowOffByOne(bits, n, signed, frac_bits, int_bits) ==
  IF bits = 0 THEN [neg |-> FALSE, abs |-> <<>>, overflow |-> FALSE]
  ELSE LET split == neg_abs(bits, n, signed)
           leading_zeros == LeadingZeros(split.abs, n)
           shifted == WFromInt(Shl(split.abs, leading_zeros, n))
           need_to_shr == leading_zeros - frac_bits
       IN [neg |-> split.neg,
           abs |-> IF need_to_shr = 0 THEN shifted
                   ELSE IF need_to_shr < 0 /\ -need_to_shr < 128
                        THEN WShl(shifted, -need_to_shr, 128)
                   ELSE IF need_to_shr > 0 /\ need_to_shr < 128
                        THEN WShr(shifted, need_to_shr)
                   ELSE <<>>,
           overflow |-> n - need_to_shr >= frac_bits + int_bits]

\* to_fixed_neg_abs_overflow of sealed_int!: (neg, abs: u128, overflow).
to_fixed_neg_abs_overflow(bits, n, signed, frac_bits, int_bits) ==
  IF bits = 0 THEN [neg |-> FALSE, abs |-> <<>>, overflow |-> FALSE]
  ELSE LET split == neg_abs(bits, n, signed)
           leading_zeros == LeadingZeros(split.abs, n)
           shifted == WFromInt(Shl(split.abs, leading_zeros, n))
           need_to_shr == leading_zeros - frac_bits
       IN [neg |-> split.neg,
           abs |-> IF need_to_shr = 0 THEN shifted
                   ELSE IF need_to_shr < 0 /\ -need_to_shr < 128
                        THEN WShl(shifted, -need_to_shr, 128)
                   ELSE IF need_to_shr > 0 /\ need_to_shr < 128
                        THEN WShr(shifted, need_to_shr)
                   ELSE <<>>,
           overflow |-> n - need_to_shr > frac_bits + int_bits]

\* ------------------------------------------------- cast.rs: static_cast

\* The types of a static_cast: a primitive integer of size bytes, a
\* fixed-point type of nbits bits with int_nbits integer bits, a float.
IntType(signed, size) ==
  [kind |-> "int", signed |-> signed, size |-> size, int_nbits |-> 8 * size]

FixedType(signed, nbits, int_nbits) ==
  [kind |-> "fixed", signed |-> signed, size |-> nbits \div 8, int_nbits |-> int_nbits]

FloatType(size) ==
  [kind |-> "float", signed |-> TRUE, size |-> size, int_nbits |-> 0]

\* A bug: an unsigned integer is cast to a FixedI with as many integer bits.
StaticCastCondSignBitCounts(src, dst) ==
  CASE src.kind = "int" /\ dst.kind = "fixed" ->
         (CASE src.signed /\ dst.signed -> dst.int_nbits >= 8 * src.size
            [] src.signed /\ ~dst.signed -> FALSE
            [] ~src.signed /\ dst.signed -> dst.int_nbits >= 8 * src.size
            [] OTHER -> dst.int_nbits >= 8 * src.size)
    [] src.kind = "fixed" /\ dst.kind = "int" ->
         (CASE src.signed /\ dst.signed -> 8 * dst.size >= src.int_nbits
            [] ~src.signed /\ dst.signed -> 8 * dst.size > src.int_nbits
            [] src.signed /\ ~dst.signed -> FALSE
            [] OTHER -> 8 * dst.size >= src.int_nbits)
    [] src.kind = "float" /\ dst.kind = "fixed" -> FALSE
    [] src.kind = "fixed" /\ dst.kind = "float" -> TRUE

\* $cond of the eight integer and the two float arms of compile_time!.
StaticCastCond(src, dst) ==
  CASE src.kind = "int" /\ dst.kind = "fixed" ->
         (CASE src.signed /\ dst.signed -> dst.int_nbits >= 8 * src.size
            [] src.signed /\ ~dst.signed -> FALSE
            [] ~src.signed /\ dst.signed -> dst.int_nbits > 8 * src.size
            [] OTHER -> dst.int_nbits >= 8 * src.size)
    [] src.kind = "fixed" /\ dst.kind = "int" ->
         (CASE src.signed /\ dst.signed -> 8 * dst.size >= src.int_nbits
            [] ~src.signed /\ dst.signed -> 8 * dst.size > src.int_nbits
            [] src.signed /\ ~dst.signed -> FALSE
            [] OTHER -> 8 * dst.size >= src.int_nbits)
    [] src.kind = "float" /\ dst.kind = "fixed" -> FALSE
    [] src.kind = "fixed" /\ dst.kind = "float" -> TRUE

\* static_cast: Some(az::cast(self)) or None; the cast itself is from_num or
\* to_num of the value type and is kept as a name.
static_cast(src, dst) ==
  IF StaticCastCond(src, dst) THEN [some |-> TRUE, val |-> "az::cast(self)"]
  ELSE [some |-> FALSE, val |-> "none"]

\* ----------------------- direct calls of the working integers and static_cast

\* The bit patterns of an n-bit integer that are tried: all of them for a
\* byte, and for wider ones those within MaxOffset of 0, of the sign bit and
\* of the top, and the powers of two.
IntVals(n) ==
  IF n = 8 THEN 0..255
  ELSE {v \in 0..(2 ^ n - 1) :
          \/ v <= MaxOffset
          \/ v >= 2 ^ (n - 1) - MaxOffset /\ v <= 2 ^ (n - 1) + MaxOffset
          \/ v >= 2 ^ n - 1 - MaxOffset
          \/ \E k \in 0..(n - 1) : v = 2 ^ k}

\* The bit patterns scaled by to_fixed_neg_abs_overflow.
ScaledVals(n) ==
  {v \in IntVals(n) : \E k \in 0..n : \E d \in 0..MaxOffset :
                        v = 2 ^ k - d \/ v = (2 ^ k + d) % (2 ^ n)}

\* frac_bits and int_bits with frac_bits + int_bits <= 128.
FracBitCounts == {f \in 0..128 : \E c \in {0, 8, 16, 64, 128} :
                                   f >= c - MaxOffset /\ f <= c + MaxOffset}

IntBitCounts(f) == {i \in 0..(128 - f) : i <= 17 \/ i = 128 - f}

\* The sizes in bytes of the primitive integers (isize and usize are one of
\* them), of the fixed-point types and of the floats.
IntSizes == {1, 2, 4, 8, 16}

FloatSizes == {4, 8}

\* The integer bit counts of a fixed-point type of nbits bits that are tried:
\* those within MaxOffset of the width of a primitive integer, and 0.
FixedIntBits(nbits) ==
  {i \in 0..nbits : \E c \in {0, 8, 16, 32, 64, 128} :
                      i >= c - MaxOffset /\ i <= c + MaxOffset}

IntTypes == {IntType(sg, sz) : sg \in BOOLEAN, sz \in IntSizes}

FixedTypes ==
  UNION {{FixedType(sg, 8 * sz, i) : sg \in BOOLEAN, i \in FixedIntBits(8 * sz)} :
           sz \in IntSizes}

FloatTypes == {FloatType(sz) : sz \in FloatSizes}

NoType == [kind |-> "none", signed |-> FALSE, size |-> 0, int_nbits |-> 0]

IntCall(fn, bits, n, signed, frac_bits, int_bits) ==
  [fn |-> fn, val |-> bits, s |-> <<>>, nbits |-> n, signed |-> signed,
   frac_bits |-> frac_bits, int_bits |-> int_bits, neg |-> FALSE, abs |-> 0,
   src |-> NoType, dst |-> NoType]

CastCall(src, dst) ==
  [fn |-> "static_cast", val |-> 0, s |-> <<>>, nbits |-> 0, signed |-> FALSE,
   frac_bits |-> 0, int_bits |-> 0, neg |-> FALSE, abs |-> 0,
   src |-> src, dst |-> dst]

IntArgs ==
  {IntCall("neg_abs", v, n, sg, 0, 0) :
     v \in IntVals(8) \cup IntVals(16), n \in {8, 16}, sg \in BOOLEAN}
    \cup UNION {{IntCall("to_fixed_neg_abs_overflow", v, n, sg, f, i) :
                   v \in ScaledVals(8) \cup ScaledVals(16), n \in {8, 16},
                   sg \in BOOLEAN, i \in IntBitCounts(f)} : f \in FracBitCounts}
    \cup {CastCall(a, b) : a \in IntTypes \cup FloatTypes, b \in FixedTypes}
    \cup {CastCall(a, b) : a \in FixedTypes, b \in IntTypes \cup FloatTypes}

InitInt ==
  /\ pc = "test"
  /\ radix = 10
  /\ call = NoCall
  /\ ret = None
  /\ can_be_neg = FALSE
  /\ text = <<>>
  /\ scan = ScanInit
  /\ parsed = NoParse
  /\ layout = NoLayout
  /\ result = NoResult

\* A caller evaluates the arguments of its next call.
TestInt ==
  /\ pc = "test"
  /\ call' \in {c \in IntArgs : c.val < 2 ^ c.nbits}
  /\ pc' = "call"
  /\ UNCHANGED <<radix, can_be_neg, text, scan, parsed, layout, result, ret>>

\* x.neg_abs()
CallNegAbs ==
  /\ pc = "call"
  /\ call.fn = "neg_abs"
  /\ ret' = neg_abs(call.val, call.nbits, call.signed)
  /\ pc' = "split"
  /\ UNCHANGED <<radix, can_be_neg, text, scan, parsed, layout, result, call>>

\* from_neg_abs(neg, abs) of what neg_abs returned.
CallFromNegAbs ==
  /\ pc = "split"
  /\ call' = [call EXCEPT !.fn = "from_neg_abs", !.neg = ret.neg, !.abs = ret.abs]
  /\ ret' = from_neg_abs(ret.neg, ret.abs, call.nbits, call.signed)
  /\ pc' = "ret"
  /\ UNCHANGED <<radix, can_be_neg, text, scan, parsed, layout, result>>

CallToFixed ==
  Returns("to_fixed_neg_abs_overflow",
          to_fixed_neg_abs_overflow(call.val, call.nbits, call.signed,
                                    call.frac_bits, call.int_bits))

CallStaticCast == Returns("static_cast", static_cast(call.src, call.dst))

NextInt == TestInt \/ CallNegAbs \/ CallFromNegAbs \/ CallToFixed \/ CallStaticCast

SpecInt == InitInt /\ [][NextInt]_vars

\* ------------------------------------------- reference values for the claims

\* The value of a digit byte, read off the ASCII table.
RefDigit(byte) ==
  CASE byte \in 48..57 -> byte - 48
    [] byte \in 65..70 -> byte - 55
    [] byte \in 97..102 -> byte - 87
    [] OTHER -> 99

RefDigitOK(byte, r) == RefDigit(byte) < r

\* The number a digit string denotes in radix r.
RECURSIVE DigitsValue(_, _)
DigitsValue(digits, r) ==
  IF digits = <<>> THEN 0
  ELSE DigitsValue(SubSeq(digits, 1, Len(digits) - 1), r) * r + RefDigit(digits[Len(digits)])

\* <<q, m>> with val * 2^n = q * D + m and 0 <= m < D, by repeated doubling.
RECURSIVE ScaleQR(_, _, _)
ScaleQR(val, n, D) ==
  IF n = 0 THEN <<val \div D, val % D>>
  ELSE LET p == ScaleQR(val, n - 1, D)
       IN <<2 * p[1] + ((2 * p[2]) \div D), (2 * p[2]) % D>>

\* floor(val * 2^n / D + 1/2).
RoundHalfUp(val, n, D) ==
  LET p == ScaleQR(val, n, D) IN p[1] + (IF 2 * p[2] >= D THEN 1 ELSE 0)

\* The text without its leading sign, and its digits before and after the point.
HasSign(s) == s # <<>> /\ s[1] \in {PLUS, MINUS}

Unsigned(s) == IF HasSign(s) THEN Tail(s) ELSE s

Points(s) == {i \in DOMAIN s : s[i] = POINT}

FirstPoint(s) == CHOOSE i \in Points(s) : \A j \in Points(s) : i <= j

IntDigits(s) ==
  LET b == Unsigned(s)
  IN IF Points(b) = {} THEN b ELSE SubSeq(b, 1, FirstPoint(b) - 1)

FracDigits(s) ==
  LET b == Unsigned(s)
  IN IF Points(b) = {} THEN <<>> ELSE SubSeq(b, FirstPoint(b) + 1, Len(b))

\* The fraction of the literal s, rounded half-up to F bits: 2^F when it
\* rounds up to a whole unit.
FracRound(s, r, F) ==
  RoundHalfUp(DigitsValue(FracDigits(s), r), F, r ^ Len(FracDigits(s)))

\* [sign] digits [. digits], every byte legal where it stands.
RefLegal(s, neg_ok, r) ==
  LET b == IF s # <<>> /\ (s[1] = PLUS \/ (s[1] = MINUS /\ neg_ok)) THEN Tail(s) ELSE s
  IN /\ \A i \in DOMAIN b : b[i] = POINT \/ RefDigitOK(b[i], r)
     /\ Cardinality(Points(b)) <= 1

\* A parse that ran the conversion: the text was lexically valid.
Converted == pc = "done" /\ parsed.ok

Width == layout[1]

FracBits == layout[2]

IntBits == layout[1] - layout[2]

\* ------------------------------------------------------------- the claims

IsDecCall == pc = "ret" /\ call.fn \in {"dec3_to_bin8", "dec6_to_bin16"}

DecDivisor == IF call.fn = "dec3_to_bin8" THEN 10 ^ 3 ELSE 10 ^ 6

DecWord == IF call.fn = "dec3_to_bin8" THEN 8 ELSE 16

\* C1: dec3_to_bin8 and dec6_to_bin16 round half-up exactly: with
\* q = floor(val * 2^nbits / 10^d + 1/2) they return Some(q) when q < 2^nbits
\* and None when q = 2^nbits; at nbits = 8 (16) the answer, None counted as
\* 2^nbits, is within 1/2 of val * 2^nbits / 10^d.
C1_DecRoundsHalfUp ==
  IsDecCall =>
    LET q == RoundHalfUp(call.val, call.nbits, DecDivisor)
        p == ScaleQR(call.val, call.nbits, DecDivisor)
        ans == IF ret.some THEN ret.val ELSE 2 ^ call.nbits
    IN /\ q <= 2 ^ call.nbits
       /\ q < 2 ^ call.nbits => ret = Some(q)
       /\ q = 2 ^ call.nbits => ret = None
       /\ call.nbits = DecWord =>
            \/ ans = p[1] /\ 2 * p[2] <= DecDivisor
            \/ ans = p[1] + 1 /\ 2 * (DecDivisor - p[2]) <= DecDivisor

\* 0.999999 at 16 bits: 65535.93 rounds up to 2^16, a carry to the whole.
C1_Witness ==
  /\ IsDecCall
  /\ call.fn = "dec6_to_bin16"
  /\ call.nbits = 16
  /\ call.val = 999999
  /\ ret = None

\* C2: on an unsigned layout, a literal whose fraction rounds up to a whole
\* unit parses to (n + 1) * 2^F when n + 1 < 2^I and to Overflow otherwise,
\* n being the value of its integer digits (0 when there are none).
C2_CarryIncrementsInteger ==
  (Converted /\ ~can_be_neg /\ FracRound(text, radix, FracBits) = 2 ^ FracBits) =>
    LET n == DigitsValue(IntDigits(text), radix)
    IN IF n + 1 < 2 ^ IntBits
       THEN result = Ok((n + 1) * (2 ^ FracBits))
       ELSE result = Err("Overflow")

\* C3: the fraction bits of a decimal fraction of any length are the
\* half-up rounding of its full exact value times 2^nbits (None when that is
\* 2^nbits): the digits past the working digit count do not matter.
C3_TruncationKeepsRounding ==
  (pc = "ret" /\ call.fn = "get_frac8_dec") =>
    LET q == RoundHalfUp(DigitsValue(call.s, 10), call.nbits, 10 ^ Len(call.s))
    IN ret = IF q = 2 ^ call.nbits THEN None ELSE Some(q)

\* The W-bit two's-complement pattern of a signed value.
Pattern(x, w) == (x + 2 ^ w) % (2 ^ w)

\* The magnitude of the literal s rounded half-up to F fraction bits, as a
\* scaled integer; TooBig when its integer digits alone leave the W-bit word.
TooBig == 0 - 1

Magnitude(s, r, I, F) ==
  LET n == DigitsValue(IntDigits(s), r)
  IN IF n >= 2 ^ I THEN TooBig ELSE n * (2 ^ F) + FracRound(s, r, F)

\* C4: on a signed layout of width W a literal of rounded magnitude m parses
\* to Overflow iff m > 2^(W-1) (negative literal) or m > 2^(W-1) - 1
\* (non-negative literal), and otherwise to the two's-complement pattern of
\* -m or m, so an Ok result lies in [-2^(W-1), 0] or in [0, 2^(W-1) - 1].
C4_SignedAsymmetry ==
  (Converted /\ can_be_neg) =>
    LET neg == text[1] = MINUS
        m == Magnitude(text, radix, IntBits, FracBits)
        limit == IF neg THEN 2 ^ (Width - 1) ELSE 2 ^ (Width - 1) - 1
    IN IF m = TooBig \/ m > limit THEN result = Err("Overflow")
       ELSE /\ result.ok
            /\ Pattern(result.bits, Width) = IF neg THEN (2 ^ Width - m) % (2 ^ Width) ELSE m
            /\ IF neg THEN result.bits >= 0 - 2 ^ (Width - 1) /\ result.bits <= 0
               ELSE result.bits >= 0 /\ result.bits <= 2 ^ (Width - 1) - 1

\* The range check of the signed assembly taken by itself: with m the
\* magnitude the unsigned assembly yields for the literal without its sign,
\* the signed parse is Overflow iff m > 2^(W-1) (negative) or m > 2^(W-1) - 1
\* (non-negative), and otherwise the pattern of -m or m; where the unsigned
\* assembly overflows, so does the signed one.
SignedCheckOnAssembledMagnitude ==
  (Converted /\ can_be_neg) =>
    LET neg == text[1] = MINUS
        u == FromStrUnsigned(Width, Unsigned(text), radix, IntBits, FracBits)
        limit == IF neg THEN 2 ^ (Width - 1) ELSE 2 ^ (Width - 1) - 1
    IN IF ~u.ok THEN result = Err("Overflow")
       ELSE /\ (result = Err("Overflow")) <=> (u.bits > limit)
            /\ u.bits <= limit =>
                 /\ result.ok
                 /\ Pattern(result.bits, Width) =
                      IF neg THEN (2 ^ Width - u.bits) % (2 ^ Width) ELSE u.bits

IsFracCall ==
  /\ pc = "ret"
  /\ call.fn \in {"bin_str_frac_to_bin", "oct_str_frac_to_bin", "hex_str_frac_to_bin"}

CallBits == CASE call.fn = "bin_str_frac_to_bin" -> 1
              [] call.fn = "oct_str_frac_to_bin" -> 3
              [] OTHER -> 4

\* C5: for radix 2, 8 and 16 a non-empty fraction digit string of value v is
\* rounded once, half-up: the converter returns floor(v * 2^nbits + 1/2), or
\* None when that is 2^nbits; the increment is the one bit just past the cutoff.
C5_Pow2FracRoundsOnce ==
  IsFracCall =>
    LET N == DigitsValue(call.s, 2 ^ CallBits)
        D == 2 ^ (CallBits * Len(call.s))
        q == (N * (2 ^ (call.nbits + 1)) + D) \div (2 * D)
        kept == (N * (2 ^ call.nbits)) \div D
        next_bit == ((N * (2 ^ (call.nbits + 1))) \div D) % 2
    IN /\ q = kept + next_bit
       /\ q <= 2 ^ call.nbits
       /\ ret = IF q = 2 ^ call.nbits THEN None ELSE Some(q)

\* Hex "7F8" cut after 6 bits: 011111|1 1000, the rounding bit sits inside
\* the second digit and carries into 100000.
C5_Witness ==
  /\ IsFracCall
  /\ call.fn = "hex_str_frac_to_bin"
  /\ call.s = <<55, 70, 56>>
  /\ call.nbits = 6
  /\ ret = Some(32)

BitsPerDigit(r) == CASE r = 2 -> 1 [] r = 8 -> 3 [] OTHER -> 4

\* C6: on an unsigned layout with I integer bits, a literal whose fraction
\* does not carry has the integer field n (the value of its integer digits)
\* when n < 2^I and is Overflow when n >= 2^I; for radix 2/8/16 the digit fold
\* never shifts a set bit out of its word.
C6_IntegerRangeCheck ==
  (Converted /\ ~can_be_neg /\ FracRound(text, radix, FracBits) < 2 ^ FracBits) =>
    LET n == DigitsValue(IntDigits(text), radix)
    IN /\ IF n < 2 ^ IntBits
          THEN result.ok /\ result.bits \div (2 ^ FracBits) = n
          ELSE result = Err("Overflow")
       /\ (radix # 10 /\ parsed.int # <<>>) =>
            /\ ~StrIntRun(parsed.int, BitsPerDigit(radix), 8).lost
            /\ ~StrIntRun(parsed.int, BitsPerDigit(radix), 16).lost

\* Hex "100" into U8F0: the budget of 7 leading zeros is used up at the third digit.
C6_Witness ==
  /\ Converted
  /\ ~can_be_neg
  /\ radix = 16
  /\ text = <<49, 48, 48>>
  /\ layout = <<8, 0>>
  /\ result = Err("Overflow")
  /\ ~StrIntRun(parsed.int, 4, 8).some

\* What the parse of s returns where this parse stopped: the lexical error,
\* or the result for this layout.
ParseOf(s) ==
  IF layout = NoLayout THEN Err(parse_bounds(s, can_be_neg, radix).kind)
  ELSE from_str_radix(can_be_neg, Width, s, radix, FracBits)

\* C7: a leading '+' is accepted, on signed and unsigned layouts, and does
\* not change the result: parse("+" + s) = parse(s) for every s without a sign.
C7_LeadingPlusIgnored ==
  /\ text = <<PLUS>> => result.kind # "InvalidDigit"
  /\ (pc = "done" /\ text # <<>> /\ text[1] = PLUS /\ ~HasSign(Tail(text))) =>
        result = ParseOf(Tail(text))

\* "+5" on U8F0 is 5.
C7_Witness ==
  /\ Converted
  /\ ~can_be_neg
  /\ radix = 10
  /\ text = <<PLUS, 53>>
  /\ layout = <<8, 0>>
  /\ result = Ok(5)

\* C8: on an unsigned layout a text whose first offending byte is '-' fails
\* with InvalidDigit ("-0" and "-12" too); on a signed layout a single
\* leading '-' is accepted.
C8_MinusNeedsSignedLayout ==
  /\ (~can_be_neg /\ \E i \in DOMAIN text : text[i] = MINUS) =>
        pc = "done" /\ result = Err("InvalidDigit")
  /\ (can_be_neg /\ text = <<MINUS>>) =>
        result.kind # "InvalidDigit" /\ scan.sign = "minus"
  /\ (can_be_neg /\ Converted /\ text[1] = MINUS) => parsed.neg
  /\ (pc = "scan" /\ text = <<>>) =>
        \A l \in Layouts :
          /\ FromStrUnsigned(l[1], <<MINUS, 48>>, radix, l[1] - l[2], l[2])
               = Err("InvalidDigit")
          /\ FromStrUnsigned(l[1], <<MINUS, 49, 50>>, radix, l[1] - l[2], l[2])
               = Err("InvalidDigit")

\* The scan of an unsigned layout stopped at a '-' that follows a digit.
C8_Witness ==
  /\ ~can_be_neg
  /\ pc = "done"
  /\ text = <<48, MINUS>>
  /\ result = Err("InvalidDigit")

HasToken(s, r) ==
  \E i \in DOMAIN s : s[i] \in {PLUS, MINUS, POINT} \/ RefDigitOK(s[i], r)

\* C9 as stated: a second sign, or a sign after a digit or after the point,
\* makes parse_bounds fail with InvalidDigit.
C9_MisplacedSignInvalidDigit ==
  HasToken(text, radix) =>
    \A sg \in {PLUS, MINUS} :
      parse_bounds(Append(text, sg), can_be_neg, radix).kind = "InvalidDigit"

\* C9, amended: a second sign, or a sign after a digit or after the point,
\* makes parse_bounds fail with InvalidDigit when every byte before that sign
\* is lexically legal (an earlier offending byte decides the error instead).
C9_MisplacedSignFirstOffender ==
  /\ (HasToken(text, radix) /\ RefLegal(text, can_be_neg, radix)) =>
        \A sg \in {PLUS, MINUS} :
          parse_bounds(Append(text, sg), can_be_neg, radix).kind = "InvalidDigit"
  /\ (Len(text) >= 2 /\ text[Len(text)] \in {PLUS, MINUS}) =>
        pc = "done" /\ result = Err("InvalidDigit")

\* "1+": the scan stopped at the sign after a digit.
C9_Witness ==
  /\ pc = "done"
  /\ text = <<49, PLUS>>
  /\ result = Err("InvalidDigit")

\* C10: a second '.' whose preceding bytes are all lexically legal fails the
\* parse with TooManyPoints ("1.2.3", ".1.").
C10_SecondPointTooManyPoints ==
  /\ Cardinality(Points(text)) >= 2 => pc = "done" /\ result = Err("TooManyPoints")
  /\ (RefLegal(text, can_be_neg, radix) /\ Points(text) # {}) =>
        parse_bounds(Append(text, POINT), can_be_neg, radix).kind = "TooManyPoints"
  /\ (pc = "scan" /\ text = <<>> /\ radix = 10) =>
        /\ parse_bounds(<<49, POINT, 50, POINT, 51>>, can_be_neg, radix).kind
             = "TooManyPoints"
        /\ parse_bounds(<<POINT, 49, POINT>>, can_be_neg, radix).kind = "TooManyPoints"

\* ".1.": the scan stopped at the second point.
C10_Witness ==
  /\ pc = "done"
  /\ text = <<POINT, 49, POINT>>
  /\ result = Err("TooManyPoints")

NoLegalDigit(s, r) == \A i \in DOMAIN s : ~RefDigitOK(s[i], r)

\* C11: a text without a digit that is otherwise lexically legal ("", "+",
\* "-" on a signed layout, ".", "+.") fails with NoDigits, and no parse of a
\* text that holds a legal digit fails with NoDigits.
C11_NoDigits ==
  /\ (pc = "done" /\ RefLegal(text, can_be_neg, radix) /\ NoLegalDigit(text, radix)) =>
        result = Err("NoDigits")
  /\ result.kind = "NoDigits" => NoLegalDigit(text, radix)
  /\ (pc = "scan" /\ text = <<>>) =>
        \A l \in Layouts :
          \A s \in {<<>>, <<PLUS>>, <<POINT>>, <<PLUS, POINT>>}
                     \cup (IF can_be_neg THEN {<<MINUS>>} ELSE {}) :
            from_str_radix(can_be_neg, l[1], s, radix, l[2]) = Err("NoDigits")

\* "+.": the text ended without a digit.
C11_Witness ==
  /\ pc = "done"
  /\ text = <<PLUS, POINT>>
  /\ result = Err("NoDigits")

Bytes == 0..255

\* A hex letter moved to upper or to lower case; every other byte as it is.
UpperByte(b) == IF b \in 97..102 THEN b - 32 ELSE b

LowerByte(b) == IF b \in 65..70 THEN b + 32 ELSE b

UpperText(s) == [i \in DOMAIN s |-> UpperByte(s[i])]

LowerText(s) == [i \in DOMAIN s |-> LowerByte(s[i])]

\* C12: the digits of parse_bounds are exactly 0-1 (radix 2), 0-7 (radix 8),
\* 0-9 (radix 10) and 0-9, a-f, A-F (radix 16); every other byte that is not
\* '+', '-' or '.' (a space, a digit too large, a non-ASCII byte) is
\* InvalidDigit; a hex letter has the digit value 10..15 in either case, so
\* the result of a radix 16 parse does not depend on letter case.
C12_DigitLegality ==
  /\ (pc = "scan" /\ text = <<>>) =>
        /\ \A b \in Bytes : IsDigit(b, radix) <=> RefDigitOK(b, radix)
        /\ \A b \in Bytes \ {PLUS, MINUS, POINT} :
             ~RefDigitOK(b, radix) =>
               ScanStep(scan, 0, b, can_be_neg, radix).err = "InvalidDigit"
        /\ \A b \in HexDigitBytes :
             /\ unchecked_hex_digit(b) = RefDigit(b)
             /\ unchecked_hex_digit(UpperByte(b)) = unchecked_hex_digit(LowerByte(b))
  /\ pc = "scan" =>
        \A b \in {0, SPACE, 47, 58, 64, 71, 96, 103, 127, 128, 195, 255, BadDigit(radix)} :
          ScanStep(scan, Len(text), b, can_be_neg, radix).err = "InvalidDigit"
  /\ (pc = "done" /\ ~parsed.ok /\ text # <<>>
        /\ text[Len(text)] \notin {PLUS, MINUS, POINT}
        /\ ~RefDigitOK(text[Len(text)], radix)) => result = Err("InvalidDigit")
  /\ (pc = "done" /\ radix = 16) =>
        /\ result = ParseOf(UpperText(text))
        /\ result = ParseOf(LowerText(text))

\* Hex "fF" into U8F0: both cases of the letter are the digit 15.
C12_Witness ==
  /\ Converted
  /\ ~can_be_neg
  /\ radix = 16
  /\ text = <<102, 70>>
  /\ layout = <<8, 0>>
  /\ result = Ok(255)

LexicalKinds == {"InvalidDigit", "NoDigits", "TooManyPoints"}

\* [sign] digits [. digits] with at least one digit.
RefValid(s, neg_ok, r) == RefLegal(s, neg_ok, r) /\ ~NoLegalDigit(s, r)

\* C13: a lexically invalid text fails with InvalidDigit, NoDigits or
\* TooManyPoints on every layout, never with Overflow, whatever its digits
\* would amount to; Overflow is returned for lexically valid text only.
C13_LexicalBeforeOverflow ==
  /\ result.kind = "Overflow" => RefValid(text, can_be_neg, radix)
  /\ (pc = "done" /\ ~RefValid(text, can_be_neg, radix)) =>
        /\ result.kind \in LexicalKinds
        /\ \A l \in Layouts :
             from_str_radix(can_be_neg, l[1], text, radix, l[2]) = result

\* "999" overflows U8F0, "999 " is an invalid digit.
C13_Witness ==
  /\ pc = "done"
  /\ ~can_be_neg
  /\ radix = 10
  /\ text = <<57, 57, 57, SPACE>>
  /\ result = Err("InvalidDigit")
  /\ FromStrUnsigned(8, <<57, 57, 57>>, 10, 8, 0) = Err("Overflow")

RECURSIVE Zeros(_)
Zeros(k) == IF k = 0 THEN <<>> ELSE <<ZERO>> \o Zeros(k - 1)

\* k '0' digits put at the start of the integer part (after the sign).
InsertIntZeros(s, k) ==
  IF HasSign(s) THEN <<s[1]>> \o Zeros(k) \o Tail(s) ELSE Zeros(k) \o s

\* The text without the first byte after its sign, and without its last byte.
DropFirstDigit(s) == IF HasSign(s) THEN <<s[1]>> \o Tail(Tail(s)) ELSE Tail(s)

DropLast(s) == SubSeq(s, 1, Len(s) - 1)

\* C14: zero trimming preserves the value: a lexically valid literal with
\* '0' digits inserted at the start of its integer part, or appended to the
\* end of its fraction part, has the same parse result (bits or error kind)
\* on the same layout.
C14_ZeroTrimmingPreservesValue ==
  Converted =>
    /\ \A k \in 1..2 : ParseOf(InsertIntZeros(text, k)) = result
    /\ Points(text) # {} => \A k \in 1..2 : ParseOf(text \o Zeros(k)) = result
    /\ (Unsigned(text)[1] = ZERO /\ RefValid(DropFirstDigit(text), can_be_neg, radix)) =>
          ParseOf(DropFirstDigit(text)) = result
    /\ (Points(text) # {} /\ text[Len(text)] = ZERO
          /\ RefValid(DropLast(text), can_be_neg, radix)) =>
          ParseOf(DropLast(text)) = result

\* "01.0" on U4F4 is 1.0, as "1." is.
C14_Witness ==
  /\ Converted
  /\ ~can_be_neg
  /\ radix = 10
  /\ text = <<48, 49, POINT, 48>>
  /\ layout = <<8, 4>>
  /\ result = Ok(16)
  /\ ParseOf(<<49, POINT>>) = Ok(16)

RECURSIVE StripLeadingZeros(_)
StripLeadingZeros(d) ==
  IF d # <<>> /\ d[1] = ZERO THEN StripLeadingZeros(Tail(d)) ELSE d

RECURSIVE StripTrailingZeros(_)
StripTrailingZeros(d) ==
  IF d # <<>> /\ d[Len(d)] = ZERO THEN StripTrailingZeros(DropLast(d)) ELSE d

ParseOk(neg, int, frac) == [ok |-> TRUE, kind |-> "none", neg |-> neg, int |-> int, frac |-> frac]

\* C15: on success parse_bounds returns neg = a '-' is present, the integer
\* digits without their leading zeros and the digits after the point without
\* their trailing zeros (each empty when absent or all zeros): a non-empty
\* integer span does not start with '0', a non-empty fraction span does not
\* end with '0'.
C15_NormalizedSpans ==
  /\ parsed.ok =>
        /\ parsed.neg <=> (\E i \in DOMAIN text : text[i] = MINUS)
        /\ parsed.int = StripLeadingZeros(IntDigits(text))
        /\ parsed.frac = StripTrailingZeros(FracDigits(text))
        /\ parsed.int # <<>> => parsed.int[1] # ZERO
        /\ parsed.frac # <<>> => parsed.frac[Len(parsed.frac)] # ZERO
  /\ (pc = "scan" /\ text = <<>>) =>
        /\ parse_bounds(<<MINUS, 49, 50, POINT, 51, 52>>, TRUE, 10)
             = ParseOk(TRUE, <<49, 50>>, <<51, 52>>)
        /\ parse_bounds(<<48, 49, 50, POINT>>, TRUE, 10) = ParseOk(FALSE, <<49, 50>>, <<>>)
        /\ parse_bounds(<<PLUS, POINT, 51, 52, 48>>, FALSE, 10)
             = ParseOk(FALSE, <<>>, <<51, 52>>)
        /\ parse_bounds(<<48>>, FALSE, 10) = ParseOk(FALSE, <<>>, <<>>)
        /\ parse_bounds(<<MINUS, POINT, 67, 49, 65, 48>>, TRUE, 16)
             = ParseOk(TRUE, <<>>, <<67, 49, 65>>)

\* "-.10": no integer digits, one trailing zero cut.
C15_Witness ==
  /\ pc = "parsed"
  /\ text = <<MINUS, POINT, 49, 48>>
  /\ parsed = ParseOk(TRUE, <<>>, <<49>>)

IsHalfCall(fn) == pc = "ret" /\ call.fn = fn /\ call.nbits <= 8

\* C16: the half-width shortcut changes no result: for nbits <= 8, get_int16
\* and get_frac16 (which go through get_int8 and get_frac8) return what the
\* full-width body of the same function returns for the same arguments.
C16_HalfWidthIsShortcut ==
  /\ IsHalfCall("get_int16") => ret = IntBody(16, call.s, radix, call.nbits, call.val = 1)
  /\ IsHalfCall("get_frac16") => ret = FracBody(16, call.s, radix, call.nbits)

\* The shortcut of get_int16 by itself, and that of get_frac16 for radix
\* 2, 8 and 16 and for decimal spans of at most three digits: where the
\* half-width routine reads every digit the full-width body reads.
HalfWidthAgreesWhereDigitsSuffice ==
  /\ IsHalfCall("get_int16") => ret = IntBody(16, call.s, radix, call.nbits, call.val = 1)
  /\ (IsHalfCall("get_frac16") /\ (radix # 10 \/ Len(call.s) <= 3)) =>
        ret = FracBody(16, call.s, radix, call.nbits)

\* a & b of two words.
RECURSIVE BitAnd(_, _)
BitAnd(a, b) ==
  IF a = 0 \/ b = 0 THEN 0
  ELSE (IF a % 2 = 1 /\ b % 2 = 1 THEN 1 ELSE 0) + 2 * BitAnd(a \div 2, b \div 2)

\* What $frac and $int return for the spans of this parse.
FracOfParse == GetFrac(Width, parsed.frac, radix, FracBits)

IntOfParse == GetInt(Width, parsed.int, radix, IntBits, ~FracOfParse.some)

\* C17: the integer and the fraction pattern lie in disjoint bit ranges:
\* whenever $int succeeds, its pattern is a W-bit word with the low
\* frac_nbits bits clear, the fraction pattern is below 2^frac_nbits (0 after
\* a carry to the whole), int & frac = 0 and int | frac = int + frac.
C17_DisjointBitRanges ==
  (Converted /\ IntOfParse.some) =>
    LET int == IntOfParse.val
        frac == IF FracOfParse.some THEN FracOfParse.val ELSE 0
    IN /\ int < 2 ^ Width
       /\ int % (2 ^ FracBits) = 0
       /\ frac < 2 ^ FracBits
       /\ ~FracOfParse.some => frac = 0
       /\ BitAnd(int, frac) = 0
       /\ BitOr(int, frac) = int + frac

\* "1.5" on U8F8: 0x0100 from the integer (through get_int8, shifted up) and
\* 0x0080 from the fraction.
C17_Witness ==
  /\ Converted
  /\ ~can_be_neg
  /\ radix = 10
  /\ text = <<49, POINT, 53>>
  /\ layout = <<16, 8>>
  /\ IntOfParse = Some(256)
  /\ FracOfParse = Some(128)
  /\ result = Ok(384)

Pow10_54 == WPow(10, 54)

\* q = floor(N * 2^n / 10^54 + 1/2), stated without a division for the
\* numerator X = N * 2^(n+1) + 10^54: q * 2 * 10^54 <= X < (q + 1) * 2 * 10^54.
IsRoundHalfUp(q, X) ==
  /\ WGeq(X, WMul(q, WMulSmall(Pow10_54, 2)))
  /\ WLess(X, WMul(WAdd(q, <<1>>), WMulSmall(Pow10_54, 2)))

IsCall27_27(hi, lo, nbits) ==
  /\ pc = "ret"
  /\ call.fn = "dec27_27_to_bin128"
  /\ call.hi = hi
  /\ call.lo = lo
  /\ call.nbits = nbits

\* The results the claim documents for a 128-bit fraction.
NinesZeros128 == WDec(<<340, 282, 366, 920, 938, 463, 463, 374, 607, 91, 485, 844, 535>>)

ZerosNines128 == WDec(<<340, 282, 366, 921>>)

\* C19: dec27_27_to_bin128(hi, lo, nbits) is exact: with
\* q = round-half-up((hi * 10^27 + lo) * 2^nbits / 10^54) it returns Some(q)
\* when q < 2^nbits and None when q = 2^nbits; at nbits = 128 the groups
\* (nines, nines) give None, (nines, 0) give
\* 340282366920938463463374607091485844535, (0, nines) give 340282366921
\* and (0, 0) give 0.
C19_Dec27_27Exact ==
  /\ (pc = "ret" /\ call.fn = "dec27_27_to_bin128") =>
        LET N == WAdd(WMul(call.hi, WPow(10, 27)), call.lo)
            X == WAdd(WShlFull(N, call.nbits + 1), Pow10_54)
        IN /\ WLess(N, Pow10_54)
           /\ WGeq(X, Pow10_54)
           /\ IF ret.some
              THEN IsRoundHalfUp(ret.val, X) /\ WLess(ret.val, WPow2(call.nbits))
              ELSE IsRoundHalfUp(WPow2(call.nbits), X)
  /\ IsCall27_27(Nines27, Nines27, 128) => ret = WNone
  /\ IsCall27_27(Nines27, <<>>, 128) => ret = WSome(NinesZeros128)
  /\ IsCall27_27(<<>>, Nines27, 128) => ret = WSome(ZerosNines128)
  /\ IsCall27_27(<<>>, <<>>, 128) => ret = WSome(<<>>)

\* 27 nines and 27 nines at 128 bits: a carry to the whole.
C19_Witness ==
  /\ IsCall27_27(Nines27, Nines27, 128)
  /\ ret = WNone

\* The digit count and the result width of a decimal converter.
DigitsOf(fn) ==
  CASE fn = "dec3_to_bin8" -> 3 [] fn = "dec6_to_bin16" -> 6
    [] fn = "dec13_to_bin32" -> 13 [] fn = "dec27_to_bin64" -> 27 [] OTHER -> 54

WordOf(fn) ==
  CASE fn = "dec3_to_bin8" -> 8 [] fn = "dec6_to_bin16" -> 16
    [] fn = "dec13_to_bin32" -> 32 [] fn = "dec27_to_bin64" -> 64 [] OTHER -> 128

\* The argument val of a call as a wide word.
CallVal == IF call.fn \in {"dec3_to_bin8", "dec6_to_bin16"} THEN WFromInt(call.val) ELSE call.hi

\* The bound of the claim for d digits and a w-bit result:
\* 2 * 5^d < 2^w and val * 2^(w-d+1) + 5^d < 2^(2w).
FitsDouble(val, d, w) ==
  /\ WLess(WMulSmall(WPow(5, d), 2), WPow2(w))
  /\ WLess(WAdd(WMul(val, WPow2(w - d + 1)), WPow(5, d)), WPow2(2 * w))

\* C20: the digit counts keep the intermediates inside the double-width
\* word: for (d, w) in (3, 8), (6, 16), (13, 32), (27, 64) and val < 10^d,
\* 2 * 5^d < 2^w and val * 2^(w-d+1) + 5^d < 2^(2w), so neither the left
\* shift nor the addition of the rounding bias overflows in dec3_to_bin8,
\* dec6_to_bin16, dec13_to_bin32 and dec27_to_bin64; and
\* (10^54 - 1) * 2^(128-54+1) + 5^54 < 2^256 in dec27_27_to_bin128.
C20_IntermediatesFit ==
  /\ (pc = "ret" /\ call.fn # "dec27_27_to_bin128") =>
        LET d == DigitsOf(call.fn)
            w == WordOf(call.fn)
        IN /\ ~DecRun(CallVal, call.nbits, d, w).lost
           /\ FitsDouble(CallVal, d, w)
           /\ FitsDouble(WSub(WPow(10, d), <<1>>), d, w)
           /\ call.fn \in {"dec3_to_bin8", "dec6_to_bin16"} =>
                /\ ret.some = DecRun(CallVal, call.nbits, d, w).some
                /\ ret.some => WFromInt(ret.val) = DecRun(CallVal, call.nbits, d, w).val
  /\ (pc = "ret" /\ call.fn = "dec27_27_to_bin128") =>
        /\ ~Dec27_27Run(call.hi, call.lo, call.nbits).lost
        /\ WLess(WAdd(WMul(WSub(WPow(10, 54), <<1>>), WPow2(128 - 54 + 1)), WPow(5, 54)),
                 WPow2(256))

\* 27 nines at 64 bits: the largest numerator, shifted by 38 bits, and the
\* bias still fit 128 bits; the result is a carry to the whole.
C20_Witness ==
  /\ pc = "ret"
  /\ call.fn = "dec27_to_bin64"
  /\ call.hi = Nines27
  /\ call.nbits = 64
  /\ ret = WNone
  /\ ~DecRun(Nines27, 64, 27, 64).lost

IsMulCall == pc = "ret" /\ call.fn = "mul_hi_lo"

\* C21: mul_hi_lo(lhs, rhs) returns (hi, lo) with hi * 2^128 + lo = lhs * rhs,
\* both words below 2^128, and inside it no wrapping_mul and no plain addition
\* leaves the 128-bit word: only the overflowing_add, whose carry is added
\* into hi, may.
C21_WideMultiplyExact ==
  IsMulCall =>
    /\ WAdd(WShlFull(ret[1], 128), ret[2]) = WMul(call.hi, call.lo)
    /\ WLess(ret[1], WPow2(128))
    /\ WLess(ret[2], WPow2(128))
    /\ ~MulHiLoRun(call.hi, call.lo).lost

\* Both operands are 2^128 - 1: the overflowing_add carries into col3 and the
\* result is (2^128 - 2, 1).
C21_Witness ==
  /\ IsMulCall
  /\ call.hi = WSub(WPow2(128), <<1>>)
  /\ call.lo = WSub(WPow2(128), <<1>>)
  /\ MulHiLoRun(call.hi, call.lo).carry_col3
  /\ ret = <<WSub(WPow2(128), <<2>>), <<1>>>>

\* The value of the first n digits of a span right-padded with zeros to n
\* digits: the sum over i of digit i times 10^(n - i), read off the ASCII table.
RECURSIVE PaddedValueFrom(_, _, _, _)
PaddedValueFrom(f, n, lo, hi) ==
  IF lo > hi THEN <<>>
  ELSE IF lo = hi THEN WMulSmall(WPow(10, n - lo), RefDigit(f[lo]))
  ELSE WAdd(PaddedValueFrom(f, n, lo, (lo + hi) \div 2),
            PaddedValueFrom(f, n, (lo + hi) \div 2 + 1, hi))

PaddedValue(f, n) == PaddedValueFrom(f, n, 1, Min(Len(f), n))

IsFrac128Call == pc = "ret" /\ call.fn = "get_frac128_dec"

\* C22: get_frac128_dec hands dec27_27_to_bin128 (hi, lo) with hi * 10^27 + lo
\* the value of the first 54 digits of the span right-padded to 54 digits, hi
\* the first 27 digits padded, lo = 0 for a span of at most 27 digits, both
\* below 10^27; the digits after the 54th do not change them.
C22_DigitGrouping128 ==
  IsFrac128Call =>
    /\ WAdd(WMul(call.hi, WPow(10, 27)), call.lo) = PaddedValue(call.s, 54)
    /\ call.hi = PaddedValue(call.s, 27)
    /\ Len(call.s) <= 27 => call.lo = <<>>
    /\ WLess(call.hi, WPow(10, 27))
    /\ WLess(call.lo, WPow(10, 27))
    /\ <<call.hi, call.lo>> = Frac128DecArgs(SubSeq(call.s, 1, Min(Len(call.s), 54)))

\* A span of 55 nines: lo is 27 nines and the 55th digit is dropped.
C22_Witness ==
  /\ IsFrac128Call
  /\ Len(call.s) = 55
  /\ call.s[55] = 57
  /\ call.hi = Nines27
  /\ call.lo = Nines27

SignedOk == pc = "done" /\ can_be_neg /\ result.ok

\* C23: on a signed layout the magnitude does not depend on the sign: for a
\* text s without a sign, parse(s) = Ok(b) implies parse("-" + s) = Ok(-b), and
\* parse("-" + s) = Ok(c) with c # -2^(W-1) implies parse(s) = Ok(-c).
C23_SignIndependentMagnitude ==
  /\ (SignedOk /\ ~HasSign(text)) =>
       from_str_radix(TRUE, Width, <<MINUS>> \o text, radix, FracBits)
         = Ok(0 - result.bits)
  /\ (SignedOk /\ HasSign(text) /\ text[1] = MINUS
        /\ result.bits # 0 - 2 ^ (Width - 1)) =>
       from_str_radix(TRUE, Width, Tail(text), radix, FracBits) = Ok(0 - result.bits)

\* "-1.5" on I8F0: the tie goes away from zero, to -2, as "1.5" goes to 2.
C23_Witness ==
  /\ SignedOk
  /\ radix = 10
  /\ text = <<MINUS, 49, POINT, 53>>
  /\ layout = <<8, 0>>
  /\ result = Ok(0 - 2)
  /\ from_str_radix(TRUE, 8, Tail(text), radix, 0) = Ok(2)

\* What byte i of the text s offends against, given the bytes before it: a
\* sign after any sign, point or digit, or a '-' on an unsigned layout, is an
\* illegal sign; a point after a point is a second point; a byte that is no
\* sign, point or digit of the radix is an illegal character.
Offence(s, i, neg_ok, r) ==
  LET before == {s[j] : j \in 1..(i - 1)}
      token == \E b \in before : b \in {PLUS, MINUS, POINT} \/ RefDigitOK(b, r)
  IN IF s[i] = PLUS THEN (IF token THEN "InvalidDigit" ELSE "ok")
     ELSE IF s[i] = MINUS THEN (IF token \/ ~neg_ok THEN "InvalidDigit" ELSE "ok")
     ELSE IF s[i] = POINT THEN (IF POINT \in before THEN "TooManyPoints" ELSE "ok")
     ELSE IF RefDigitOK(s[i], r) THEN "ok"
     ELSE "InvalidDigit"

Offenders(s, neg_ok, r) == {i \in DOMAIN s : Offence(s, i, neg_ok, r) # "ok"}

FirstOffender(s, neg_ok, r) ==
  CHOOSE i \in Offenders(s, neg_ok, r) : \A j \in Offenders(s, neg_ok, r) : i <= j

\* The lexical error of a text: that of its leftmost offending byte, NoDigits
\* if no byte offends and none is a digit, else "none".
LexicalError(s, neg_ok, r) ==
  IF Offenders(s, neg_ok, r) # {}
  THEN Offence(s, FirstOffender(s, neg_ok, r), neg_ok, r)
  ELSE IF NoLegalDigit(s, r) THEN "NoDigits"
  ELSE "none"

\* C24: parse_bounds returns the error of the leftmost offending byte, and
\* NoDigits only after the whole text was scanned without one: while the scan
\* runs no byte read offends; a scan that stopped inside the text stopped at
\* the first offending byte with its error; ".." is TooManyPoints and "+.x"
\* is InvalidDigit.
C24_LeftmostOffenderDecides ==
  /\ pc = "scan" => Offenders(text, can_be_neg, radix) = {}
  /\ pc \in {"parsed", "done"} =>
       LET kind == LexicalError(text, can_be_neg, radix)
       IN /\ kind # "none" => result = Err(kind)
          /\ kind = "none" => result.kind \notin LexicalKinds
          /\ kind \in {"InvalidDigit", "TooManyPoints"} =>
               FirstOffender(text, can_be_neg, radix) = Len(text)
          /\ result.kind = "NoDigits" => Offenders(text, can_be_neg, radix) = {}
  /\ parse_bounds(<<POINT, POINT>>, can_be_neg, radix).kind = "TooManyPoints"
  /\ parse_bounds(<<PLUS, POINT, BadDigit(radix)>>, can_be_neg, radix).kind = "InvalidDigit"

\* "+.x": the scan stops at the illegal character, its third byte, although
\* the text has no digit; and ".." stops at the second point.
C24_Witness ==
  /\ pc = "done"
  /\ text = <<PLUS, POINT, BadDigit(radix)>>
  /\ result = Err("InvalidDigit")
  /\ NoLegalDigit(text, radix)

\* A lexically valid text whose digits are all '0'.
AllZeros(s, neg_ok, r) ==
  /\ RefValid(s, neg_ok, r)
  /\ \A i \in DOMAIN s : RefDigitOK(s[i], r) => s[i] = ZERO

\* C25: a lexically valid text whose digits are all '0' parses to bits 0, never
\* to Overflow, in every layout, 0 integer bits and 0 fraction bits included:
\* both spans are trimmed to nothing and both converters return Some(0).
C25_ZeroParsesToZero ==
  AllZeros(text, can_be_neg, radix) =>
    /\ pc = "parsed" => parsed = ParseOk(HasSign(text) /\ text[1] = MINUS, <<>>, <<>>)
    /\ pc = "done" => result = Ok(0)

\* "-0" on I0F8 and on I8F0, "000." and ".0" on every layout.
C25_Witness ==
  /\ pc = "done"
  /\ can_be_neg
  /\ text = <<MINUS, ZERO>>
  /\ layout = <<8, 8>>
  /\ result = Ok(0)

\* A byte of s that is neither a legal sign (a leading '+', or a leading '-'
\* on a signed layout) nor a point.
OtherByte(s, neg_ok) ==
  \E i \in DOMAIN s :
    /\ s[i] # POINT
    /\ ~(i = 1 /\ (s[i] = PLUS \/ (s[i] = MINUS /\ neg_ok)))

\* C26 as stated: in a radix outside {2, 8, 10, 16} every text fails the scan,
\* with InvalidDigit when it contains any byte other than a legal sign
\* or a point and with NoDigits or TooManyPoints otherwise.  The texts are
\* those read so far, extended by one more byte.
C26_OtherByteIsInvalidDigit ==
  \A byte \in InputBytes(radix) :
    LET s == text \o <<byte>>
        p == parse_bounds(s, can_be_neg, radix)
    IN (pc = "scan" \/ result.kind = "TooManyPoints") =>
         /\ ~p.ok
         /\ OtherByte(s, can_be_neg) => p.kind = "InvalidDigit"
         /\ ~OtherByte(s, can_be_neg) => p.kind \in {"NoDigits", "TooManyPoints"}

\* C26, amended: in a radix outside {2, 8, 10, 16} no parse passes the scan,
\* so no converter is called with it; the error is that of the leftmost
\* offending byte, every byte but a sign and a point being an illegal
\* character (InvalidDigit) and a second point TooManyPoints, and NoDigits
\* when no byte offends.
C26_OtherRadixFailsScan ==
  /\ pc # "parsed"
  /\ ~parsed.ok
  /\ pc = "done" =>
       /\ result.kind \in LexicalKinds
       /\ result = Err(LexicalError(text, can_be_neg, 0))
  /\ \A byte \in InputBytes(radix) :
       parse_bounds(text \o <<byte>>, can_be_neg, radix)
         = ParseErr(LexicalError(text \o <<byte>>, can_be_neg, 0))

\* "..": the second point ends the scan with TooManyPoints, whatever follows;
\* "9" is no digit in radix 36.
C26_Witness ==
  /\ pc = "done"
  /\ radix = 36
  /\ text = <<POINT, POINT>>
  /\ result = Err("TooManyPoints")
  /\ parse_bounds(<<POINT, POINT, 57>>, can_be_neg, radix).kind = "TooManyPoints"
  /\ parse_bounds(<<57>>, can_be_neg, radix).kind = "InvalidDigit"

\* C27: no parse panics: the slices parse_bounds takes lie within the text on
\* character boundaries, and in $frac and $int and the converters they call
\* every shift amount is below the width of its operand, every subtraction
\* stays at or above zero, every unchecked addition and multiplication stays
\* within its word, every unwrap() finds a value and every debug_assert holds.
C27_NoPanic ==
  /\ pc \in {"scan", "parsed"} => ~ScanFinishPanics(scan, text)
  /\ pc = "parsed" =>
       \A l \in Layouts : ~AssemblePanics(l[1], parsed, radix, l[1] - l[2], l[2])
  /\ Converted => ~AssemblePanics(Width, parsed, radix, IntBits, FracBits)

\* "1.9" in radix 16 on U8F0: the integer takes the whole word, so nbits is
\* the width and parsed_int >> nbits is skipped by remove_bits > 0; the
\* fraction has no bit to fill and rounds to a whole unit.
C27_Witness ==
  /\ Converted
  /\ radix = 16
  /\ text = <<49, POINT, 56>>
  /\ layout = <<8, 0>>
  /\ ~GetFrac(8, parsed.frac, radix, 0).some
  /\ result = Ok(2)

\* The value of an n-bit pattern, read as two's complement when signed.
ValueOf(bits, n, signed) == IF signed /\ bits >= 2 ^ (n - 1) THEN bits - 2 ^ n ELSE bits

AbsOf(x) == IF x < 0 THEN -x ELSE x

\* C28: neg_abs(x) is (x < 0, |x|), with |MIN| = 2^(W-1) for a signed x and
\* (false, x) for an unsigned one, and from_neg_abs of that pair passes its
\* assertion and gives x back.
C28_NegAbsRoundTrip ==
  /\ pc = "split" =>
       /\ ret.neg = (ValueOf(call.val, call.nbits, call.signed) < 0)
       /\ ret.abs = AbsOf(ValueOf(call.val, call.nbits, call.signed))
       /\ ~call.signed => ret = [neg |-> FALSE, abs |-> call.val]
  /\ pc = "ret" /\ call.fn = "from_neg_abs" =>
       /\ call.neg = (ValueOf(call.val, call.nbits, call.signed) < 0)
       /\ call.abs = AbsOf(ValueOf(call.val, call.nbits, call.signed))
       /\ ~ret.panics
       /\ ret.val = call.val

\* i8::MIN split into (true, 128) and put together again.
C28_Witness ==
  /\ pc = "ret"
  /\ call.fn = "from_neg_abs"
  /\ call.signed /\ call.nbits = 8 /\ call.val = 128
  /\ call.neg /\ call.abs = 128
  /\ ret.val = 128

\* What a cast must hold: every value below upper and, when negative, of a
\* magnitude of at most low_mag.  Wide words, <<>> is 0.
SourceRange(t) ==
  CASE t.kind = "int" /\ t.signed ->
         [upper |-> WPow2(8 * t.size - 1), low_mag |-> WPow2(8 * t.size - 1)]
    [] t.kind = "int" /\ ~t.signed -> [upper |-> WPow2(8 * t.size), low_mag |-> <<>>]
    \* a fixed-point number cast to an integer is rounded down: with no
    \* integer bits a signed one lies in [-1/2, 1/2) and gives -1 or 0.
    [] t.kind = "fixed" /\ t.signed /\ t.int_nbits = 0 /\ 8 * t.size > 0 ->
         [upper |-> WPow2(0), low_mag |-> WPow2(0)]
    [] t.kind = "fixed" /\ t.signed ->
         [upper |-> WPow2(t.int_nbits - 1), low_mag |-> WPow2(t.int_nbits - 1)]
    [] t.kind = "fixed" /\ ~t.signed -> [upper |-> WPow2(t.int_nbits), low_mag |-> <<>>]

\* The integers a destination represents.
DestRange(t) ==
  CASE t.kind = "int" /\ t.signed ->
         [upper |-> WPow2(8 * t.size - 1), low_mag |-> WPow2(8 * t.size - 1)]
    [] t.kind = "int" /\ ~t.signed -> [upper |-> WPow2(8 * t.size), low_mag |-> <<>>]
    \* with no integer bits a signed fixed-point type holds the integer 0 only.
    [] t.kind = "fixed" /\ t.signed /\ t.int_nbits = 0 ->
         [upper |-> WPow2(0), low_mag |-> <<>>]
    [] t.kind = "fixed" /\ t.signed ->
         [upper |-> WPow2(t.int_nbits - 1), low_mag |-> WPow2(t.int_nbits - 1)]
    [] t.kind = "fixed" /\ ~t.signed -> [upper |-> WPow2(t.int_nbits), low_mag |-> <<>>]

NoSourceValueOverflows(src, dst) ==
  /\ WGeq(DestRange(dst).upper, SourceRange(src).upper)
  /\ WGeq(DestRange(dst).low_mag, SourceRange(src).low_mag)

\* The conditions as the claim lists them, n the bits of the integer and I
\* the integer bits of the fixed-point type.
CastTable(src, dst) ==
  LET n == IF src.kind = "int" THEN 8 * src.size ELSE 8 * dst.size
      I == IF src.kind = "fixed" THEN src.int_nbits ELSE dst.int_nbits
  IN CASE src.kind = "float" -> FALSE
       [] dst.kind = "float" -> TRUE
       [] src.kind = "int" /\ src.signed /\ dst.signed -> I >= n
       [] src.kind = "int" /\ ~src.signed /\ ~dst.signed -> I >= n
       [] src.kind = "int" /\ ~src.signed /\ dst.signed -> I > n
       [] src.kind = "int" /\ src.signed /\ ~dst.signed -> FALSE
       [] src.kind = "fixed" /\ src.signed /\ dst.signed -> n >= I
       [] src.kind = "fixed" /\ ~src.signed /\ ~dst.signed -> n >= I
       [] src.kind = "fixed" /\ ~src.signed /\ dst.signed -> n > I
       [] src.kind = "fixed" /\ src.signed /\ ~dst.signed -> FALSE

IsCastReturn == pc = "ret" /\ call.fn = "static_cast"

RefBitLength(v) == CHOOSE k \in 0..16 : v < 2 ^ k /\ (k = 0 \/ v >= 2 ^ (k - 1))

IsToFixedReturn == pc = "ret" /\ call.fn = "to_fixed_neg_abs_overflow"

\* C30: to_fixed_neg_abs_overflow(x, frac_bits, int_bits) is (false, 0, false)
\* for x = 0 and otherwise (x < 0, |x| * 2^frac_bits mod 2^128, the bit length
\* of |x| exceeds int_bits).
C30_ScalesMagnitude ==
  IsToFixedReturn =>
    LET x == ValueOf(call.val, call.nbits, call.signed)
    IN IF x = 0 THEN ret = [neg |-> FALSE, abs |-> <<>>, overflow |-> FALSE]
       ELSE /\ ret.neg = (x < 0)
            /\ ret.abs = WLow(WMul(WFromInt(AbsOf(x)), WPow2(call.frac_bits)), 128)
            /\ ret.overflow = (RefBitLength(AbsOf(x)) > call.int_bits)

\* i16::MIN scaled by 2^128: the shift by 128 is replaced by 0, which is the
\* product 2^143 modulo 2^128, and the 16 bits of the magnitude exceed the 0
\* integer bits.
C30_Witness ==
  /\ IsToFixedReturn
  /\ call.signed /\ call.nbits = 16 /\ call.val = 32768
  /\ call.frac_bits = 128 /\ call.int_bits = 0
  /\ ret = [neg |-> TRUE, abs |-> <<>>, overflow |-> TRUE]

====
